---------------------------- MODULE Spec2Model ----------------------------
(***************************************************************************)
(* Verification model of parts of the i6_experiments recipes:              *)
(*                                                                         *)
(*   - ModelWithCheckpoints (users/zeyer/model_interfaces.py): the         *)
(*     fixed-epoch computation of a training job;                          *)
(*   - AdvancedTreeSearchFunctor.__call__                                  *)
(*     (users/berger/systems/functors/recognition/advanced_tree_search.py):*)
(*     the recognition grid and the CRP object it works on;                *)
(*   - FactoredHybridSystem (users/gunz/setups/fh/system.py): the          *)
(*     experiment records and the operations that fill them, init_system   *)
(*     and init_datasets,                                                  *)
(*     _update_am_setting_for_all_crps and the preparation of the train,   *)
(*     cv and dev-train data inputs;                                       *)
(*   - ConformerEncoder                                                    *)
(*     (users/zeineldeen/models/asr/encoder/conformer_encoder.py): the     *)
(*     front end and the layers of the Conformer blocks;                   *)
(*   - baseline_04_big_short                                               *)
(*     (users/schupp/hybrid_hmm_nn/experiments_rtc/baseline_04_big_short   *)
(*     .py): the stochastic-depth and squeeze-and-excitation experiments;  *)
(*   - viterbi_lstm (users/mann/nn/config/lstm.py): the BLSTM training     *)
(*     config with its optional focal loss;                                *)
(*   - FactoredHybridSystem.run_input_step: the train key and the system   *)
(*     inputs of the mapped corpora.                                       *)
(*                                                                         *)
(* Each part has its own specification (SpecCkpt, SpecATS, SpecFH,         *)
(* SpecInitSystem, SpecUpdateAm, SpecPrepare, SpecConformer, SpecBigShort, *)
(* SpecViterbiLstm, SpecRunInputStep) over the shared variable tuple; a    *)
(* specification leaves the variables of the other parts at their idle     *)
(* values.                                                                 *)
(*                                                                         *)
(* Python objects that are shared by reference (ReturnnConfig, CRP) live   *)
(* in heaps indexed by object identity, so that a mutation through an      *)
(* alias is visible to every holder of the reference.  None is the string  *)
(* "None".                                                                 *)
(***************************************************************************)
EXTENDS Integers, Sequences, FiniteSets, TLC

VARIABLES
    \* ---- ModelWithCheckpoints ----
    post_config,     \* training_job.returnn_config.post_config
    mwc,             \* the ModelWithCheckpoints built by from_training_job
    ckpt_ret,        \* the last value returned by a classmethod / property
    \* ---- AdvancedTreeSearchFunctor ----
    ats_args,        \* the arguments of the running __call__
    ats_heap,        \* CRP objects by identity: language_model_config.scale
    ats_crp,         \* the local variable crp of __call__ (a reference)
    ats_pc,          \* position of __call__: "idle", "loop", "done"
    ats_idx,         \* number of grid points processed so far
    ats_jobs,        \* AdvancedTreeSearchJob / scoring jobs created, in order
    ats_outputs,     \* names given to tk.register_output, in order
    ats_results,     \* recog_results
    \* ---- FactoredHybridSystem ----
    experiments,     \* self.experiments
    cfg_heap,        \* ReturnnConfig objects by identity
    crp,             \* self.crp: CRP objects by corpus key
    train_input_data,\* self.train_input_data[train_corpus_key]
    fh_last,         \* what the last orchestrator call did
    \* ---- FactoredHybridSystem.init_system ----
    init_args,       \* self.rasr_init_args, self.train_data, self.dev_data, self.test_data
    init_pc,         \* position of init_system
    am_configured,   \* whether self._init_am has run
    added_corpora,   \* the add_corpus calls made, in order
    train_corpora,   \* self.train_corpora
    dev_corpora,     \* self.dev_corpora
    test_corpora,    \* self.test_corpora
    \* ---- FactoredHybridSystem._update_am_setting_for_all_crps ----
    tdp_args,        \* train_tdp_type, eval_tdp_type, n_states_per_phone, corpora keys
    tdp_names,       \* self.crp_names as a list of (role name, CRP key), in dict order
    tdp_types,       \* the local dict types
    tdp_pc,          \* position of _update_am_setting_for_all_crps
    tdp_idx,         \* number of entries of self.crp_names processed so far
    tdp_crp,         \* the tdp preset written into each CRP of self.crp
    tdp_calls,       \* the crp_key of each _update_crp_am_setting call, in order
    \* ---- FactoredHybridSystem.prepare_train_data_with_* ----
    prep_args,       \* the corpus, self.filter_segments, self.cv_info and the variant chosen
    prep_pc,         \* "start" before the call, "done" after it
    prep_split,      \* the split handed to ShuffleAndSplitSegmentsJob
    prep_segments,   \* train_segments, cv_segments, devtrain_segments
    prep_inputs,     \* the CRP of nn_train_data, nn_cv_data, nn_devtrain_data
    \* ---- ConformerEncoder ----
    conf_args,       \* num_blocks, subsample and the block flags given to __init__
    conf_subsample_list, \* self.subsample_list
    conf_pc,         \* position of create_network: "start", "blocks", "done", or the exception
    conf_i,          \* number of Conformer blocks created so far
    conf_network,    \* the layers of self.network
    conf_src,        \* conformer_block_src: the layers the next block reads
    \* ---- baseline_04_big_short ----
    bs_entry,        \* the function of the script that ran last, "start" before any
    bs_calls,        \* the create_experiment_world_004 calls that function made, in order
    bs_sd_args,      \* the local sd_args of that function when it returned
    bs_se_block_for_module, \* the se_block_for_module it gave to make_experiment_07_se_block
    bs_network,      \* data["network"] in test_sd / se_test
    bs_exc,          \* the exception that function raised, None if it returned
    \* ---- viterbi_lstm ----
    lstm_args,       \* kwargs, network_kwargs and the output layer blstm_network builds
    lstm_pc,         \* "start", "done", or the exception viterbi_lstm raised
    lstm_config,     \* the config viterbi_lstm returned
    \* ---- run_input_step ----
    ris_train_key,   \* self.train_key, NoTrainKey for None
    ris_inputs,      \* self.inputs: the pairs <<corpus_key, step name>> that have a system input
    ris_last,        \* the last run_input_step call: its corpus keys, step name and exception
    ris_steps        \* the number of run_input_step calls so far

ckpt_vars == <<post_config, mwc, ckpt_ret>>
ats_vars  == <<ats_args, ats_heap, ats_crp, ats_pc, ats_idx, ats_jobs, ats_outputs, ats_results>>
fh_vars   == <<experiments, cfg_heap, crp, train_input_data, fh_last>>
init_vars == <<init_args, init_pc, am_configured, added_corpora,
               train_corpora, dev_corpora, test_corpora>>
tdp_vars  == <<tdp_args, tdp_names, tdp_types, tdp_pc, tdp_idx, tdp_crp, tdp_calls>>
prep_vars == <<prep_args, prep_pc, prep_split, prep_segments, prep_inputs>>
conf_vars == <<conf_args, conf_subsample_list, conf_pc, conf_i, conf_network, conf_src>>
bs_vars == <<bs_entry, bs_calls, bs_sd_args, bs_se_block_for_module, bs_network, bs_exc>>
lstm_vars == <<lstm_args, lstm_pc, lstm_config>>
ris_vars == <<ris_train_key, ris_inputs, ris_last, ris_steps>>
vars      == <<post_config, mwc, ckpt_ret,
               ats_args, ats_heap, ats_crp, ats_pc, ats_idx, ats_jobs, ats_outputs, ats_results,
               experiments, cfg_heap, crp, train_input_data, fh_last,
               init_args, init_pc, am_configured, added_corpora,
               train_corpora, dev_corpora, test_corpora,
               tdp_args, tdp_names, tdp_types, tdp_pc, tdp_idx, tdp_crp, tdp_calls,
               prep_args, prep_pc, prep_split, prep_segments, prep_inputs,
               conf_args, conf_subsample_list, conf_pc, conf_i, conf_network, conf_src,
               bs_entry, bs_calls, bs_sd_args, bs_se_block_for_module, bs_network, bs_exc,
               lstm_args, lstm_pc, lstm_config,
               ris_train_key, ris_inputs, ris_last, ris_steps>>

None == "None"

Max(S) == CHOOSE x \in S : \A y \in S : y <= x

(***************************************************************************)
(*                        ModelWithCheckpoints                             *)
(***************************************************************************)

\* Largest num_epochs of a training job.
MaxNumEpochs == 500
\* Largest save_interval of a training job.
MaxSaveInterval == 10
\* Explicit keep lists are subsets of 1..MaxKeepEpoch ...
MaxKeepEpoch == 4
\* ... and are tried for jobs of at most this many epochs.
MaxExplicitEpochs == 6

\* cleanup_old_models of the post config: absent (None), a non-dict (True),
\* a dict without "keep", or a dict with an explicit "keep" collection.
NoCleanup == [kind |-> "absent", has_keep |-> FALSE, keep |-> {}]

CleanupOptions ==
    {NoCleanup,
     [kind |-> "bool", has_keep |-> FALSE, keep |-> {}],
     [kind |-> "dict", has_keep |-> FALSE, keep |-> {}]}
    \cup {[kind |-> "dict", has_keep |-> TRUE, keep |-> K] : K \in SUBSET (1..MaxKeepEpoch)}

PostConfigs ==
    {pc \in [num_epochs : 1..MaxNumEpochs,
             save_interval : 1..MaxSaveInterval,
             cleanup_old_models : CleanupOptions] :
        pc.cleanup_old_models.has_keep => pc.num_epochs <= MaxExplicitEpochs}

IdlePostConfig == [num_epochs |-> 0, save_interval |-> 0, cleanup_old_models |-> NoCleanup]
NoModel == [built |-> FALSE, definition |-> None, fixed_epochs |-> {}]
NoRet == [op |-> "none", arg |-> 0, epochs |-> {}, idx |-> 0, iters |-> 0,
          definition |-> None, index_path |-> ""]

\* list(range(start, stop, step)) for step > 0, as a set.
Range(start, stop, step) == {n \in start..(stop - 1) : (n - start) % step = 0}

\* stored_epochs as it would be with range(save_interval, num_epochs + 1, save_interval)
\* and no "+ [num_epochs]".
stored_epochs_no_last(num_epochs, save_interval) ==
    Range(save_interval, num_epochs + 1, save_interval)

\* stored_epochs = set(list(range(save_interval, num_epochs, save_interval)) + [num_epochs])
stored_epochs(num_epochs, save_interval) ==
    Range(save_interval, num_epochs, save_interval) \cup {num_epochs}

\* The constants as they would be with "<" in place of "<=".
keep_constants_strict(num_epochs) ==
    IF num_epochs < 10 THEN [keep_every |-> 4, keep_doubles_of |-> 5]
    ELSE IF num_epochs < 50 THEN [keep_every |-> 20, keep_doubles_of |-> 5]
    ELSE IF num_epochs < 100 THEN [keep_every |-> 40, keep_doubles_of |-> 10]
    ELSE [keep_every |-> 80, keep_doubles_of |-> 20]

\* (keep_every, keep_doubles_of) by total epoch count.
keep_constants(num_epochs) ==
    IF num_epochs <= 10 THEN [keep_every |-> 4, keep_doubles_of |-> 5]
    ELSE IF num_epochs <= 50 THEN [keep_every |-> 20, keep_doubles_of |-> 5]
    ELSE IF num_epochs <= 100 THEN [keep_every |-> 40, keep_doubles_of |-> 10]
    ELSE [keep_every |-> 80, keep_doubles_of |-> 20]

RECURSIVE Pow2(_)
Pow2(i) == IF i = 0 THEN 1 ELSE 2 * Pow2(i - 1)

\* for i in count(1): n = keep_every * i; if n > num_epochs: break; add(n)
\* The accumulator carries the pattern and the number of loop tests made.
RECURSIVE keep_every_loop(_, _, _, _)
keep_every_loop(i, keep_every, num_epochs, acc) ==
    LET n == keep_every * i
        tested == [acc EXCEPT !.iters = @ + 1]
    IN IF n > num_epochs
       THEN tested
       ELSE keep_every_loop(i + 1, keep_every, num_epochs,
                            [tested EXCEPT !.pattern = @ \cup {n}])

\* for i in count(): n = keep_doubles_of * (2 ** i); if n > num_epochs: break; add(n)
RECURSIVE keep_doubles_loop(_, _, _, _)
keep_doubles_loop(i, keep_doubles_of, num_epochs, acc) ==
    LET n == keep_doubles_of * Pow2(i)
        tested == [acc EXCEPT !.iters = @ + 1]
    IN IF n > num_epochs
       THEN tested
       ELSE keep_doubles_loop(i + 1, keep_doubles_of, num_epochs,
                              [tested EXCEPT !.pattern = @ \cup {n}])

\* ModelWithCheckpoints.default_returnn_keep_epochs, with its loop-test count.
default_keep_run(num_epochs) ==
    LET c == keep_constants(num_epochs)
        first == keep_every_loop(1, c.keep_every, num_epochs,
                                 [pattern |-> {}, iters |-> 0])
    IN keep_doubles_loop(0, c.keep_doubles_of, num_epochs, first)

default_returnn_keep_epochs(num_epochs) == default_keep_run(num_epochs).pattern

\* keep_epochs = cleanup_old_models.get("keep", None) if isinstance(.., dict) else None;
\* None falls back to the default keep epochs.
keep_epochs(pc) ==
    LET c == pc.cleanup_old_models
        is_none == ~(c.kind = "dict" /\ c.has_keep)
    IN IF is_none
       THEN default_returnn_keep_epochs(pc.num_epochs)
       ELSE c.keep

\* fixed_kept_epochs as it would be if it started empty instead of {num_epochs}.
fixed_kept_epochs_keep_only(num_epochs, keep, stored) == keep \cap stored

\* fixed_kept_epochs = {num_epochs}; .update(keep_epochs); .intersection_update(stored)
fixed_kept_epochs(num_epochs, keep, stored) ==
    ({num_epochs} \cup keep) \cap stored

\* ModelWithCheckpoints.from_training_job
from_training_job(pc) ==
    [built |-> TRUE,
     definition |-> "definition",
     fixed_epochs |-> fixed_kept_epochs(pc.num_epochs, keep_epochs(pc),
                                        stored_epochs(pc.num_epochs, pc.save_interval))]

\* The smallest of the fixed epochs.
first_fixed_epoch_idx(m) == CHOOSE x \in m.fixed_epochs : \A y \in m.fixed_epochs : x <= y

\* ModelWithCheckpoints.last_fixed_epoch_idx
last_fixed_epoch_idx(m) == Max(m.fixed_epochs)

\* "%s.%03d.index" % (self.model_name, epoch) with the model name "epoch"
index_path(epoch) ==
    "epoch." \o (IF epoch < 10 THEN "00" ELSE IF epoch < 100 THEN "0" ELSE "")
             \o ToString(epoch) \o ".index"

\* ModelWithCheckpoints.get_epoch
get_epoch(m, epoch) == [definition |-> m.definition, index_path |-> index_path(epoch)]

\* ModelWithCheckpoints.get_last_fixed_epoch
get_last_fixed_epoch(m) == get_epoch(m, last_fixed_epoch_idx(m))

InitCkptVars ==
    /\ post_config \in PostConfigs
    /\ mwc = NoModel
    /\ ckpt_ret = NoRet

IdleCkptVars ==
    /\ post_config = IdlePostConfig
    /\ mwc = NoModel
    /\ ckpt_ret = NoRet

FromTrainingJob ==
    /\ ~mwc.built
    /\ ckpt_ret.op = "none"
    /\ mwc' = from_training_job(post_config)
    /\ UNCHANGED <<post_config, ckpt_ret>>

DefaultReturnnKeepEpochs ==
    /\ ~mwc.built
    /\ ckpt_ret.op = "none"
    /\ LET run == default_keep_run(post_config.num_epochs)
       IN ckpt_ret' = [op |-> "default_returnn_keep_epochs",
                       arg |-> post_config.num_epochs,
                       epochs |-> default_returnn_keep_epochs(post_config.num_epochs),
                       idx |-> 0,
                       iters |-> run.iters,
                       definition |-> None, index_path |-> ""]
    /\ UNCHANGED <<post_config, mwc>>

LastFixedEpochIdx ==
    /\ mwc.built
    /\ ckpt_ret.op = "none"
    /\ ckpt_ret' = [op |-> "last_fixed_epoch_idx", arg |-> 0, epochs |-> {},
                    idx |-> last_fixed_epoch_idx(mwc), iters |-> 0,
                    definition |-> None, index_path |-> ""]
    /\ UNCHANGED <<post_config, mwc>>

\* get_epoch(epoch) for the first, the last or the epoch after the last.
GetEpoch ==
    /\ mwc.built
    /\ ckpt_ret.op = "none"
    /\ \E epoch \in {1, post_config.num_epochs, post_config.num_epochs + 1} :
         LET m == get_epoch(mwc, epoch)
         IN ckpt_ret' = [op |-> "get_epoch", arg |-> epoch, epochs |-> {}, idx |-> 0,
                         iters |-> 0, definition |-> m.definition,
                         index_path |-> m.index_path]
    /\ UNCHANGED <<post_config, mwc>>

GetLastFixedEpoch ==
    /\ mwc.built
    /\ ckpt_ret.op = "none"
    /\ LET m == get_last_fixed_epoch(mwc)
       IN ckpt_ret' = [op |-> "get_last_fixed_epoch", arg |-> 0, epochs |-> {},
                       idx |-> 0, iters |-> 0, definition |-> m.definition,
                       index_path |-> m.index_path]
    /\ UNCHANGED <<post_config, mwc>>


(***************************************************************************)
(*                    AdvancedTreeSearchFunctor.__call__                   *)
(***************************************************************************)

\* Scales are fixed-point numbers in units of 1/1000 (504 is 0.504).
\* Longest lm_scales, prior_scales, pronunciation_scales and epochs lists.
MaxLmScales == 2
MaxPriorScales == 2
MaxPronScales == 2
MaxEpochs == 3

LmScaleVals == {500, 504}
\* prior_scales lists are [0.0], [0.0, 0.3], [0.0, 0.3, 0.6], ... and
\* pronunciation_scales lists [0.0], [0.0, 1.0], [0.0, 1.0, 2.0], ... (or
\* empty), in thousandths: the values of a list differ, so that the position
\* of each axis in the grid shows in the records.
PriorScaleLists == {[i \in 1..k |-> 300 * (i - 1)] : k \in 0..MaxPriorScales}
PronScaleLists == {[i \in 1..k |-> 1000 * (i - 1)] : k \in 0..MaxPronScales}

SeqsUpTo(S, n) == UNION {[1..k -> S] : k \in 0..n}

\* epochs lists are [1], [1, 2], [1, 2, 3], ... (or empty)
EpochLists == {[i \in 1..k |-> i] : k \in 0..MaxEpochs}

\* recog_corpus.corpus_info.crp as the orchestrator stored it.
StoredCrp == 1
StoredCrpValue == [lm_scale |-> 10000, rest |-> "base"]

AtsArgs ==
    [lm_scales : SeqsUpTo(LmScaleVals, MaxLmScales),
     prior_scales : PriorScaleLists,
     pronunciation_scales : PronScaleLists,
     epochs : EpochLists,
     train_name : {"train"},
     recog_name : {"recog"},
     corpus_name : {"dev"},
     scorer : {"sclite", None}]

IdleAtsArgs ==
    [lm_scales |-> <<>>, prior_scales |-> <<>>, pronunciation_scales |-> <<>>,
     epochs |-> <<>>, train_name |-> "train", recog_name |-> "recog",
     corpus_name |-> "dev", scorer |-> None]

\* crp = recog_corpus.corpus_info.crp, without the copy.
alias_crp(heap, ref) == [heap |-> heap, ref |-> ref]

\* copy.deepcopy(crp): a new object with the same value.
\* Returns the heap after the call and the reference the caller holds.
deepcopy_crp(heap, ref) == [heap |-> Append(heap, heap[ref]), ref |-> Len(heap) + 1]

\* result = [x + [y] for x in result for y in pool]   (one step of itertools.product)
RECURSIVE product_step(_, _)
product_step(result, pool) ==
    IF result = <<>> THEN <<>>
    ELSE [i \in 1..Len(pool) |-> Append(Head(result), pool[i])]
         \o product_step(Tail(result), pool)

\* The grid as it would be with the epoch as the outermost loop.
product_epoch_outermost(lm_scales, prior_scales, pronunciation_scales, epochs) ==
    LET r == product_step(product_step(product_step(product_step(<< <<>> >>,
                 epochs), pronunciation_scales), prior_scales), lm_scales)
    IN [i \in 1..Len(r) |-> <<r[i][4], r[i][3], r[i][2], r[i][1]>>]

\* The grid as it would be with the pronunciation scale looped outside the
\* prior scale.
product_pronunciation_before_prior(lm_scales, prior_scales, pronunciation_scales, epochs) ==
    LET r == product_step(product_step(product_step(product_step(<< <<>> >>,
                 lm_scales), pronunciation_scales), prior_scales), epochs)
    IN [i \in 1..Len(r) |-> <<r[i][1], r[i][3], r[i][2], r[i][4]>>]

\* itertools.product(lm_scales, prior_scales, pronunciation_scales, epochs):
\* tuples <<lm_scale, prior_scale, pronunciation_scale, epoch>>.
product(lm_scales, prior_scales, pronunciation_scales, epochs) ==
    product_step(product_step(product_step(product_step(<< <<>> >>,
        lm_scales), prior_scales), pronunciation_scales), epochs)

\* "{x:02.2f}" of a non-negative scale, as the number of hundredths printed
\* (the thousandths digit of the values used is never 5, so no tie arises).
format_02_2f(x) == (x + 5) \div 10

\* self._get_epoch_string(epoch) / self._get_epoch_value(train_job, epoch)
\* for an integer epoch.
get_epoch_string(epoch) == epoch
get_epoch_value(epoch) == epoch

\* exp_full and path of one grid point
recog_path(args, lm_scale, prior_scale, pronunciation_scale, epoch) ==
    <<"nn_recog", args.corpus_name, args.train_name, args.recog_name,
      "e", get_epoch_string(epoch),
      "pron", format_02_2f(pronunciation_scale),
      "prior", format_02_2f(prior_scale),
      "lm", format_02_2f(lm_scale)>>

AtsGrid == product(ats_args.lm_scales, ats_args.prior_scales,
                   ats_args.pronunciation_scales, ats_args.epochs)

InitAtsVars ==
    /\ ats_args \in AtsArgs
    /\ ats_heap = <<StoredCrpValue>>
    /\ ats_crp = 0
    /\ ats_pc = "idle"
    /\ ats_idx = 0
    /\ ats_jobs = <<>>
    /\ ats_outputs = <<>>
    /\ ats_results = <<>>

IdleAtsVars ==
    /\ ats_args = IdleAtsArgs
    /\ ats_heap = <<StoredCrpValue>>
    /\ ats_crp = 0
    /\ ats_pc = "idle"
    /\ ats_idx = 0
    /\ ats_jobs = <<>>
    /\ ats_outputs = <<>>
    /\ ats_results = <<>>

\* Lines 34-43: the copy of the CRP, the scorer assertion, the dummy mixtures.
AtsStart ==
    /\ ats_pc = "idle"
    /\ LET c == deepcopy_crp(ats_heap, StoredCrp)
       IN /\ ats_heap' = c.heap
          /\ ats_crp' = c.ref
          /\ IF ats_args.scorer = None
             THEN /\ ats_pc' = "AssertionError"
                  /\ ats_jobs' = ats_jobs
             ELSE /\ ats_pc' = "loop"
                  /\ ats_jobs' = <<[kind |-> "CreateDummyMixturesJob", crp |-> 0,
                                    lm_scale |-> 0, prior_scale |-> 0,
                                    pronunciation_scale |-> 0, epoch |-> 0,
                                    alias |-> <<>>]>>
    /\ UNCHANGED <<ats_args, ats_idx, ats_outputs, ats_results>>

\* Lines 45-120: the body of the loop for the next grid point.
AtsGridPoint ==
    /\ ats_pc = "loop"
    /\ ats_idx < Len(AtsGrid)
    /\ LET point == AtsGrid[ats_idx + 1]
           lm_scale == point[1]
           prior_scale == point[2]
           pronunciation_scale == point[3]
           epoch == point[4]
           ref == ats_crp
           path == recog_path(ats_args, lm_scale, prior_scale, pronunciation_scale, epoch)
       IN /\ ats_heap' = [ats_heap EXCEPT ![ref].lm_scale = lm_scale]
          /\ ats_jobs' = Append(ats_jobs,
                 [kind |-> "AdvancedTreeSearchJob", crp |-> ref,
                  lm_scale |-> lm_scale, prior_scale |-> prior_scale,
                  pronunciation_scale |-> pronunciation_scale, epoch |-> epoch,
                  alias |-> path])
          /\ ats_outputs' = Append(ats_outputs,
                 [name |-> Append(path, ".reports"), crp |-> ref,
                  lattice_of |-> Len(ats_jobs) + 1])
          /\ ats_results' = Append(ats_results,
                 [train_name |-> ats_args.train_name,
                  recog_name |-> ats_args.recog_name,
                  corpus |-> ats_args.corpus_name,
                  epoch |-> get_epoch_value(epoch),
                  pron |-> pronunciation_scale,
                  prior |-> prior_scale,
                  lm |-> lm_scale,
                  scorer_job |-> Len(ats_outputs) + 1])
    /\ ats_idx' = ats_idx + 1
    /\ UNCHANGED <<ats_args, ats_crp, ats_pc>>

\* Line 122: return recog_results
AtsReturn ==
    /\ ats_pc = "loop"
    /\ ats_idx = Len(AtsGrid)
    /\ ats_pc' = "done"
    /\ UNCHANGED <<ats_args, ats_heap, ats_crp, ats_idx, ats_jobs, ats_outputs, ats_results>>


(***************************************************************************)
(*                         FactoredHybridSystem                            *)
(***************************************************************************)

\* Experiment keys, corpus keys and call arguments the scripts use.
Keys == {"exp1"}
Contexts == {"mono", "tri"}
Alignments == {"GMM"}
CrpCorpora == {"dev-other"}
FhEpochs == {4}
\* data_share in units of 1/1000: 1.0 and the default 1/3.
DataShares == {1000, 333}

\* A layer's "from": a single name or a list of names.
FromName(n) == [is_list |-> FALSE, refs |-> <<n>>]
FromList(l) == [is_list |-> TRUE, refs |-> l]

\* The ReturnnConfig objects the script creates: one whose network has the
\* specaugment "source" layer, one without it.
SpecaugmentConfig ==
    [network |-> [l \in {"source", "encoder", "center-output"} |->
                     CASE l = "source" -> FromName("data")
                       [] l = "encoder" -> FromName("source")
                       [] OTHER -> FromList(<<"encoder", "source">>)],
     forward_output_layer |-> None,
     train |-> None,
     dev |-> None,
     python_prolog |-> "prolog",
     python_epilog |-> "epilog"]

PlainConfig ==
    [network |-> [l \in {"encoder", "center-output"} |->
                     IF l = "encoder" THEN FromName("data") ELSE FromList(<<"encoder">>)],
     forward_output_layer |-> None,
     train |-> None,
     dev |-> None,
     python_prolog |-> None,
     python_epilog |-> None]

InitCfgHeap == <<SpecaugmentConfig, PlainConfig>>
CfgRefs == DOMAIN InitCfgHeap
\* The reference that stands for None.
NoRef == 0

\* Placeholder of a ReturnnConfig value where there is no config.
NoConfig ==
    [network |-> [l \in {} |-> FromName("data")],
     forward_output_layer |-> None,
     train |-> None,
     dev |-> None,
     python_prolog |-> None,
     python_epilog |-> None]

\* train_job.rqmt["qsub_args"] as lines 725-726 and 853-854 set it; None when
\* they leave it alone.
qsub_args(on_2080) == IF on_2080 THEN "-l qname=*2080*" ELSE None

NoJob == [kind |-> None, returnn_config |-> NoConfig, qsub_args |-> None]
NoGraph == [kind |-> None, config |-> NoConfig, python_prolog |-> None, python_epilog |-> None]
\* PriorConfig(file=..., scale=...); an Optional[PriorConfig] is the set of at
\* most one such record, None being the empty set.  Scales are in thousandths.
PriorConfig(file, scale) == {[file |-> file, scale |-> scale]}
NoPriorConfig == {}

NoPriors == [kind |-> None, center_state_prior |-> NoPriorConfig,
             left_context_prior |-> NoPriorConfig, right_context_prior |-> NoPriorConfig]

\* A key that is not in self.experiments.
Undeclared ==
    [declared |-> FALSE, name |-> <<>>, train_job |-> NoJob, graph_inference |-> NoGraph,
     returnn_config |-> NoRef, prolog |-> "", epilog |-> "", priors |-> NoPriors]

\* self.crp[corpus]: the state-tying part of the acoustic model config.
InitCrp ==
    [c \in CrpCorpora |->
        [state_tying |-> [type |-> "no-tying-dense", file |-> None, preset |-> "label_info"]]]

\* The train data input: its CRP and the representation of its attributes.
TrainDataInputs ==
    {[crp |-> [segment_path |-> "train.segments"],
      feature_flow |-> "flow", features |-> "Path", alignments |-> "Path"],
     [crp |-> [segment_path |-> "train.segments"],
      feature_flow |-> None, features |-> "MultiPath", alignments |-> "FlagDependentFlowAttribute"],
     [crp |-> [segment_path |-> "train.segments"],
      feature_flow |-> None, features |-> "Path", alignments |-> "MultiPath"],
     [crp |-> [segment_path |-> "train.segments"],
      feature_flow |-> None, features |-> "FlagDependentFlowAttribute", alignments |-> "Path"],
     [crp |-> [segment_path |-> "train.segments"],
      feature_flow |-> None, features |-> "Other", alignments |-> "Path"],
     [crp |-> [segment_path |-> "train.segments"],
      feature_flow |-> None, features |-> "Path", alignments |-> "Other"],
     [crp |-> [segment_path |-> "train.segments"],
      feature_flow |-> "flow", features |-> "Other", alignments |-> "Path"]}

IdleTrainDataInput ==
    [crp |-> [segment_path |-> "train.segments"],
     feature_flow |-> "flow", features |-> "Path", alignments |-> "Path"]

NoCall == [op |-> "none", key |-> None, exc |-> None,
           jobs |-> <<>>, aliases |-> <<>>, outputs |-> <<>>, ret |-> <<>>,
           inputs |-> <<>>]

\* The orchestrator before a call: its persistent objects, and empty logs of
\* the jobs, aliases and outputs the call creates.  exc is the exception that
\* ended the call, ret what a helper returned, inputs the feature flow and
\* alignment handed to each RASR training or prior job.
Sys ==
    [experiments |-> experiments, cfg_heap |-> cfg_heap, crp |-> crp,
     train_input_data |-> train_input_data,
     jobs |-> <<>>, aliases |-> <<>>, outputs |-> <<>>, exc |-> None, ret |-> <<>>,
     inputs |-> <<>>]

Raise(S, e) == [S EXCEPT !.exc = e]
Failed(S) == S.exc # None

\* f"{context}-from-{alignment}" and ("-").join([name, postfix_name])
experiment_name(alignment, context, postfix_name) ==
    <<context, "-from-", alignment, "-", postfix_name>>

\* set_experiment_dict as it would be if it kept the priors of the record it
\* replaces.
set_experiment_dict_keeping_priors(S, key, alignment, context, postfix_name) ==
    [S EXCEPT !.experiments[key] =
        [declared |-> TRUE,
         name |-> experiment_name(alignment, context, postfix_name),
         train_job |-> NoJob,
         graph_inference |-> NoGraph,
         returnn_config |-> NoRef,
         prolog |-> "",
         epilog |-> "",
         priors |-> S.experiments[key].priors]]

\* set_experiment_dict: a fresh record under the key.
set_experiment_dict(S, key, alignment, context, postfix_name) ==
    [S EXCEPT !.experiments[key] =
        [declared |-> TRUE,
         name |-> experiment_name(alignment, context, postfix_name),
         train_job |-> NoJob,
         graph_inference |-> NoGraph,
         returnn_config |-> NoRef,
         prolog |-> "",
         epilog |-> "",
         priors |-> NoPriors]]

\* set_returnn_config_for_experiment as it would be if it rebuilt the record
\* around the new config.
set_returnn_config_fresh_record(S, key, returnn_config) ==
    IF ~S.experiments[key].declared
    THEN Raise(S, "AssertionError")
    ELSE [S EXCEPT !.experiments[key] =
            [Undeclared EXCEPT !.declared = TRUE,
                               !.name = S.experiments[key].name,
                               !.returnn_config = returnn_config,
                               !.prolog = S.cfg_heap[returnn_config].python_prolog,
                               !.epilog = S.cfg_heap[returnn_config].python_epilog]]

\* set_returnn_config_for_experiment
set_returnn_config_for_experiment(S, key, returnn_config) ==
    IF ~S.experiments[key].declared
    THEN Raise(S, "AssertionError")
    ELSE [S EXCEPT !.experiments[key].returnn_config = returnn_config,
                   !.experiments[key].prolog = S.cfg_heap[returnn_config].python_prolog,
                   !.experiments[key].epilog = S.cfg_heap[returnn_config].python_epilog]

\* _add_output_alias_for_train_job as it would be without tk.register_output.
add_alias_for_train_job_only(S, name) ==
    [S EXCEPT !.aliases = Append(@, <<"train/nn_">> \o name)]

\* _add_output_alias_for_train_job
add_output_alias_for_train_job(S, name) ==
    [S EXCEPT !.aliases = Append(@, <<"train/nn_">> \o name),
              !.outputs = Append(@, <<"train/">> \o name \o <<"_learning_rate.png">>)]

\* returnn_training: the job is built from the given config, then the
\* experiment's name is looked up, the alias and output are added and the job
\* is stored.  returnn_config is the ReturnnConfig value handed over, is_config
\* whether it is a ReturnnConfig at all.
returnn_training(S, experiment_key, is_config, returnn_config, on_2080) ==
    IF ~is_config THEN Raise(S, "AssertionError")
    ELSE LET train_job == [kind |-> "ReturnnTrainingJob",
                           returnn_config |-> returnn_config,
                           qsub_args |-> qsub_args(on_2080)]
             S1 == [S EXCEPT !.jobs = Append(@, "ReturnnTrainingJob")]
         IN IF ~S1.experiments[experiment_key].declared
            THEN Raise(S1, "KeyError")
            ELSE [add_output_alias_for_train_job(S1, S1.experiments[experiment_key].name)
                    EXCEPT !.experiments[experiment_key].train_job = train_job]

\* ReturnnConfig.update is library code outside the repository: what it does
\* to the python_epilog of a config that is updated with another one is one
\* of these.  "append" joins the two code fragments in a list, "keep" leaves
\* the updated config's own epilog.
UpdateModes == {"append", "keep"}

\* The Python list [a, b] of two code fragments, as a code value.
code_list(a, b) == "['" \o a \o "', '" \o b \o "']"

\* python_epilog of a config with the epilog `own` after update() with a
\* config whose epilog is `other`.
updated_python_code(mode, own, other) ==
    CASE mode = "keep" -> own
      [] mode = "append" -> IF own = None THEN other ELSE code_list(own, other)

\* The config with the HDF datasets and the cache epilog merged in
\* (returnn_config.update(update_config)).
with_hdf_datasets(config, mode) ==
    [config EXCEPT !.train = "NextGenHDFDataset",
                   !.dev = "NextGenHDFDataset",
                   !.python_epilog = updated_python_code(mode, config.python_epilog,
                                                         "hdf_dataset_cache_epilog")]

\* Lines 768-772: returnn_config = copy.deepcopy(returnn_config); .update(...)
\* Returns the heap after these lines and the config the job is built from.
hdf_config(heap, ref, mode) ==
    [heap |-> heap, config |-> with_hdf_datasets(heap[ref], mode)]

\* returnn_training_from_hdf; has_partition_epochs is whether nn_train_args
\* has the key "partition_epochs" (line 752 pops it).
returnn_training_from_hdf(S, experiment_key, returnn_config, has_partition_epochs, on_2080, mode) ==
    IF returnn_config = NoRef THEN Raise(S, "AssertionError")
    ELSE IF ~has_partition_epochs THEN Raise(S, "KeyError")
    ELSE LET c == hdf_config(S.cfg_heap, returnn_config, mode)
         IN returnn_training([S EXCEPT !.cfg_heap = c.heap],
                             experiment_key, TRUE, c.config, on_2080)

\* features.basic_cache_flow(feature_path): the flow that reads feature_path,
\* which is the features themselves or a FlagDependentFlowAttribute on
\* "cache_mode" holding them under one key.
basic_cache_flow(feature_path) == [of |-> "basic_cache_flow", feature_path |-> feature_path,
                                   flags |-> None]

\* The data input's own feature flow.
own_feature_flow(data) == [of |-> data.feature_flow, feature_path |-> None, flags |-> None]

\* The resolution as it would be if the features decided even when the data
\* input has a feature flow.
resolve_feature_flow_by_features(data) ==
    CASE data.features = "FlagDependentFlowAttribute" ->
            [ok |-> TRUE, flow |-> basic_cache_flow("features")]
      [] data.features = "MultiPath" ->
            [ok |-> TRUE, flow |-> basic_cache_flow("task_dependent")]
      [] data.features = "Path" ->
            [ok |-> TRUE, flow |-> [basic_cache_flow("bundle") EXCEPT !.flags = "bundle"]]
      [] OTHER -> [ok |-> FALSE, flow |-> own_feature_flow(data)]

\* Lines 803-827 / 277-301: the feature flow of a data input.
resolve_feature_flow(data) ==
    IF data.feature_flow # None THEN [ok |-> TRUE, flow |-> own_feature_flow(data)]
    ELSE CASE data.features = "FlagDependentFlowAttribute" ->
                [ok |-> TRUE, flow |-> basic_cache_flow("features")]
           [] data.features = "MultiPath" ->
                [ok |-> TRUE, flow |-> basic_cache_flow("task_dependent")]
           [] data.features = "Path" ->
                [ok |-> TRUE, flow |-> [basic_cache_flow("bundle") EXCEPT !.flags = "bundle"]]
           [] OTHER -> [ok |-> FALSE, flow |-> own_feature_flow(data)]

\* Lines 829-839 / 303-313: the alignments of a data input.
resolve_alignments(data) ==
    CASE data.alignments = "FlagDependentFlowAttribute" ->
            [ok |-> TRUE, alignment |-> "alignments.get(bundle)"]
      [] data.alignments = "MultiPath" -> [ok |-> FALSE, alignment |-> None]
      [] data.alignments = "Path" -> [ok |-> TRUE, alignment |-> "alignments"]
      [] OTHER -> [ok |-> FALSE, alignment |-> None]

\* returnn_rasr_training; returnn_config is the reference in nn_train_args,
\* in_args whether nn_train_args has the key "returnn_config".
returnn_rasr_training(S, experiment_key, in_args, returnn_config, on_2080) ==
    LET e == S.experiments[experiment_key]
        data == S.train_input_data
    IN IF ~in_args /\ ~e.declared THEN Raise(S, "KeyError")
       ELSE LET ref == IF in_args THEN returnn_config ELSE e.returnn_config
            IN IF ref = NoRef THEN Raise(S, "AssertionError")
               ELSE IF ~resolve_feature_flow(data).ok THEN Raise(S, "NotImplementedError")
               ELSE IF ~resolve_alignments(data).ok THEN Raise(S, "NotImplementedError")
               ELSE LET train_job == [kind |-> "ReturnnRasrTrainingJob",
                                      returnn_config |-> S.cfg_heap[ref],
                                      qsub_args |-> qsub_args(on_2080)]
                        S1 == [S EXCEPT !.jobs = Append(@, "ReturnnRasrTrainingJob"),
                                        !.inputs = Append(@,
                                            [feature_flow |-> resolve_feature_flow(data).flow,
                                             alignment |-> resolve_alignments(data).alignment])]
                    IN IF ~e.declared THEN Raise(S1, "KeyError")
                       ELSE [add_output_alias_for_train_job(S1, e.name)
                               EXCEPT !.experiments[experiment_key].train_job = train_job]

\* Lines 1111-1117: layers reading from "source" read from "data" instead,
\* and the "source" layer is deleted.
rewire_from(from) ==
    IF ~from.is_list
    THEN IF from.refs = <<"source">> THEN [from EXCEPT !.refs = <<"data">>] ELSE from
    ELSE [from EXCEPT !.refs = [i \in DOMAIN from.refs |->
                                   IF from.refs[i] = "source" THEN "data" ELSE from.refs[i]]]

rewire_source(config) ==
    IF "source" \in DOMAIN config.network
    THEN [config EXCEPT !.network =
            [l \in (DOMAIN config.network) \ {"source"} |-> rewire_from(config.network[l])]]
    ELSE config

\* The rewiring as it would be on the given config itself, without the copy.
graph_config_in_place(heap, ref) ==
    [heap |-> [heap EXCEPT ![ref] = rewire_source(heap[ref])],
     config |-> rewire_source(heap[ref])]

\* Lines 1105-1117: config = copy.deepcopy(...) and the rewiring of the copy.
\* Returns the heap after these lines and the config the graph is compiled from.
graph_config(heap, ref) ==
    [heap |-> heap, config |-> rewire_source(heap[ref])]

\* set_graph_for_experiment; override_cfg is a reference or NoRef for None.
\* An undeclared key is a KeyError (line 1105 or 1107), a None config an
\* AttributeError (line 1111).
set_graph_for_experiment(S, key, override_cfg) ==
    LET e == S.experiments[key]
        ref == IF override_cfg # NoRef THEN override_cfg ELSE e.returnn_config
    IN IF ~e.declared THEN Raise(S, "KeyError")
       ELSE IF ref = NoRef THEN Raise(S, "AttributeError")
       ELSE LET c == graph_config(S.cfg_heap, ref)
                infer_graph == [kind |-> "CompileTFGraphJob.out_graph",
                                config |-> c.config,
                                python_prolog |-> e.prolog,
                                python_epilog |-> e.epilog]
            IN [S EXCEPT !.cfg_heap = c.heap,
                         !.jobs = Append(@, "CompileTFGraphJob"),
                         !.experiments[key].graph_inference = infer_graph,
                         !.outputs = Append(@, <<"graphs/">> \o e.name \o <<"-infer.pb">>)]

\* Number of right-context prior configs
\* get_returnn_configs_for_right_context_prior_estimation returns.
NumRightContextConfigs == 2

\* get_returnn_config_for_{left_context,center_state}_prior_estimation and
\* get_returnn_configs_for_right_context_prior_estimation: a config derived
\* from the given one that forwards the named softmax layer.
\* Returns the heap after the call and the derived config.
prior_estimation_config(heap, ref, softmax_layer) ==
    [heap |-> heap,
     config |-> [heap[ref] EXCEPT !.forward_output_layer = softmax_layer]]

\* Lines 944-945: config = copy.deepcopy(returnn_config);
\* config.config["forward_output_layer"] = output_layer_name
mono_prior_config(heap, ref, output_layer_name) ==
    [heap |-> heap,
     config |-> [heap[ref] EXCEPT !.forward_output_layer = output_layer_name]]

\* Lines 261-271: the train CRP of a prior job.  Returns the data input's CRP
\* after these lines and the CRP handed to the job.
prior_train_crp(train_crp, share) ==
    IF share # 1000
    THEN [stored |-> train_crp,
          used |-> [train_crp EXCEPT !.segment_path = "priors.segments"],
          jobs |-> <<"ShuffleAndSplitSegmentsJob">>]
    ELSE [stored |-> train_crp, used |-> train_crp, jobs |-> <<>>]

\* _compute_returnn_rasr_priors; ret is the prior job's context tag on success.
compute_returnn_rasr_priors(S, key, ctx, share) ==
    LET S1 == set_graph_for_experiment(S, key, NoRef)
    IN IF Failed(S1) THEN S1
       ELSE IF S1.experiments[key].train_job.kind = None
       THEN Raise(S1, "AttributeError")
       ELSE LET t == prior_train_crp(S1.train_input_data.crp, share)
                S2 == [S1 EXCEPT !.train_input_data.crp = t.stored,
                                 !.jobs = @ \o t.jobs]
            IN IF ~resolve_feature_flow(S2.train_input_data).ok
               THEN Raise(S2, "NotImplementedError")
               ELSE IF ~resolve_alignments(S2.train_input_data).ok
               THEN Raise(S2, "NotImplementedError")
               ELSE [S2 EXCEPT !.jobs = Append(@, "ReturnnRasrComputePriorJobV2"),
                               !.inputs = Append(@,
                                   [feature_flow |-> resolve_feature_flow(S2.train_input_data).flow,
                                    alignment |-> resolve_alignments(S2.train_input_data).alignment]),
                               !.ret = Append(@, ctx)]

\* The prior jobs of a dict comprehension over contexts, in order; the first
\* exception ends it.
RECURSIVE compute_prior_jobs(_, _, _, _)
compute_prior_jobs(S, key, ctxs, share) ==
    IF ctxs = <<>> \/ Failed(S) THEN S
    ELSE compute_prior_jobs(compute_returnn_rasr_priors(S, key, Head(ctxs), share),
                            key, Tail(ctxs), share)

\* f"{self.experiments[key]['name']}/e{epoch}"
prior_name(S, key, epoch) == S.experiments[key].name \o <<"/e", ToString(epoch)>>

prior_alias(name, ctx) == <<"priors/">> \o name \o <<"/", ctx>>
prior_output(name, context_name) == <<"priors/">> \o name \o <<"/", context_name, ".xml">>

\* set_mono_priors_returnn_rasr as it would be if it did not need a train job.
set_mono_priors_untrained(S, key, epoch, returnn_config, output_layer_name, data_share) ==
    LET S1 == set_graph_for_experiment(S, key, NoRef)
    IN IF Failed(S1) THEN S1
       ELSE [S1 EXCEPT !.jobs = Append(@, "ReturnnRasrComputePriorJobV2"),
                       !.experiments[key].priors =
                            [NoPriors EXCEPT !.kind = "mono",
                                             !.center_state_prior = PriorConfig("c.out_prior_xml_file", 0)]]

\* set_mono_priors_returnn_rasr; returnn_config is a reference or NoRef.
set_mono_priors_returnn_rasr(S, key, epoch, returnn_config, output_layer_name, data_share) ==
    LET S1 == set_graph_for_experiment(S, key, NoRef)
    IN IF Failed(S1) THEN S1
       ELSE LET name == prior_name(S1, key, epoch)
                ref == IF returnn_config = NoRef
                       THEN S1.experiments[key].returnn_config ELSE returnn_config
            IN IF ref = NoRef THEN Raise(S1, "AssertionError")
               ELSE LET c == mono_prior_config(S1.cfg_heap, ref, output_layer_name)
                        S2 == compute_returnn_rasr_priors(
                                  [S1 EXCEPT !.cfg_heap = c.heap], key, "c", data_share)
                    IN IF Failed(S2) THEN S2
                       ELSE [S2 EXCEPT
                               !.aliases = Append(@, prior_alias(name, "c")),
                               !.outputs = Append(@, prior_output(name, "center-state")),
                               !.experiments[key].priors =
                                    [NoPriors EXCEPT !.kind = "mono",
                                                     !.center_state_prior = PriorConfig("c.out_prior_xml_file", 0)]]

\* set_diphone_priors_returnn_rasr
set_diphone_priors_returnn_rasr(S, key, epoch, returnn_config, data_share) ==
    LET S1 == set_graph_for_experiment(S, key, NoRef)
    IN IF Failed(S1) THEN S1
       ELSE LET name == prior_name(S1, key, epoch)
                ref == IF returnn_config = NoRef
                       THEN S1.experiments[key].returnn_config ELSE returnn_config
            IN IF ref = NoRef THEN Raise(S1, "AssertionError")
               ELSE LET left_config == prior_estimation_config(S1.cfg_heap, ref, "left-output")
                        center_config == prior_estimation_config(left_config.heap, ref,
                                                                 "center-output")
                        S2 == compute_prior_jobs([S1 EXCEPT !.cfg_heap = center_config.heap],
                                                 key, <<"l", "c">>, data_share)
                    IN IF Failed(S2) THEN S2
                       ELSE [S2 EXCEPT
                               !.aliases = @ \o <<prior_alias(name, "l"), prior_alias(name, "c")>>,
                               !.jobs = Append(@, "ReshapeCenterStatePriorsJob"),
                               !.outputs = @ \o <<prior_output(name, "center-state"),
                                                  prior_output(name, "left-context")>>,
                               !.experiments[key].priors =
                                    [kind |-> "diphone",
                                     center_state_prior |->
                                         PriorConfig("ReshapeCenterStatePriorsJob.out_prior_xml", 0),
                                     left_context_prior |-> PriorConfig("l.out_prior_xml_file", 0),
                                     right_context_prior |-> NoPriorConfig]]

\* The right contexts as they would be if the last right-context config got
\* no prior job.
right_contexts_one_short ==
    [i \in 1..(NumRightContextConfigs - 1) |-> "r" \o ToString(i - 1)]

\* The contexts "r0", "r1", ... of the right-context prior jobs.
right_contexts == [i \in 1..NumRightContextConfigs |-> "r" \o ToString(i - 1)]

\* set_triphone_priors_returnn_rasr
set_triphone_priors_returnn_rasr(S, key, epoch, returnn_config, data_share) ==
    LET S1 == set_graph_for_experiment(S, key, NoRef)
    IN IF Failed(S1) THEN S1
       ELSE LET name == prior_name(S1, key, epoch)
                ref == IF returnn_config = NoRef
                       THEN S1.experiments[key].returnn_config ELSE returnn_config
                ctxs == <<"l", "c">> \o right_contexts
            IN IF ref = NoRef THEN Raise(S1, "AssertionError")
               ELSE LET left_config == prior_estimation_config(S1.cfg_heap, ref, "left-output")
                        center_config == prior_estimation_config(left_config.heap, ref,
                                                                 "center-output")
                        right_configs == prior_estimation_config(center_config.heap, ref,
                                                                 "right-output")
                        S2 == compute_prior_jobs([S1 EXCEPT !.cfg_heap = right_configs.heap],
                                                 key, ctxs, data_share)
                    IN IF Failed(S2) THEN S2
                       ELSE [S2 EXCEPT
                               !.aliases = @ \o [i \in DOMAIN ctxs |-> prior_alias(name, ctxs[i])],
                               !.jobs = @ \o <<"ReshapeCenterStatePriorsJob",
                                               "JoinRightContextPriorsJob">>,
                               !.outputs = @ \o <<prior_output(name, "center-state"),
                                                  prior_output(name, "left-context"),
                                                  prior_output(name, "right-context")>>,
                               !.experiments[key].priors =
                                    [kind |-> "triphone",
                                     center_state_prior |->
                                         PriorConfig("ReshapeCenterStatePriorsJob.out_prior_xml", 0),
                                     left_context_prior |-> PriorConfig("l.out_prior_xml_file", 0),
                                     right_context_prior |->
                                         PriorConfig("JoinRightContextPriorsJob.out_prior_xml", 0)]]

\* Lines 1144-1151: the decoder's name.
recognizer_name(S, key, context_type, epoch, crp_corpus) ==
    IF context_type \in {"mono_state_transition", "diphone_state_transition",
                         "tri_state_transition"}
    THEN S.experiments[key].name \o <<"-delta-e", ToString(epoch), "-">>
    ELSE S.experiments[key].name \o <<"-", crp_corpus, "-e", ToString(epoch)>>

\* get_recognizer_and_args with the two assertions in the other order.
get_recognizer_and_args_priors_first(S, key, context_type, epoch, crp_corpus, given_mixtures) ==
    LET e == S.experiments[key]
    IN IF ~e.declared THEN Raise(S, "KeyError")
       ELSE IF e.priors.kind = None THEN Raise(S, "AssertionError: set priors first")
       ELSE IF e.graph_inference.kind = None THEN Raise(S, "AssertionError: set graph first")
       ELSE [S EXCEPT !.jobs = IF given_mixtures THEN @ ELSE Append(@, "CreateDummyMixturesJob"),
                      !.ret = <<"FHDecoder">>
                              \o recognizer_name(S, key, context_type, epoch, crp_corpus)]

\* get_recognizer_and_args; given_mixtures is whether dummy_mixtures was passed.
get_recognizer_and_args(S, key, context_type, epoch, crp_corpus, given_mixtures) ==
    LET e == S.experiments[key]
    IN IF ~e.declared THEN Raise(S, "KeyError")
       ELSE IF e.graph_inference.kind = None THEN Raise(S, "AssertionError: set graph first")
       ELSE IF e.priors.kind = None THEN Raise(S, "AssertionError: set priors first")
       ELSE LET S1 == [S EXCEPT !.jobs = IF given_mixtures THEN @
                                         ELSE Append(@, "CreateDummyMixturesJob")]
            IN IF e.train_job.kind = None THEN Raise(S1, "AttributeError")
               ELSE [S1 EXCEPT !.ret = <<"FHDecoder">>
                                \o recognizer_name(S, key, context_type, epoch, crp_corpus)]

\* get_cart_params
get_cart_params(S, key) ==
    LET e == S.experiments[key]
    IN IF ~e.declared THEN Raise(S, "KeyError")
       ELSE IF e.priors.kind = None THEN Raise(S, "AssertionError: set priors first")
       ELSE [S EXCEPT !.ret = <<"SearchParameters.default_cart">>]

\* Lines 1220-1226: crp = copy.deepcopy(self.crp[crp_corpus]) and the CART
\* state tying set on the copy.  Returns self.crp after these lines and the
\* CRP the decoder gets.
cart_state_tying(state_tying, tying) ==
    IF tying = "RasrConfig"
    THEN [type |-> "cart", file |-> "tying.file", preset |-> "cart_tree_or_tying_config"]
    ELSE [state_tying EXCEPT !.file = "cart.tree", !.type = "cart"]

cart_crp(crps, crp_corpus, tying) ==
    [stored |-> crps,
     used |-> [crps[crp_corpus] EXCEPT !.state_tying = cart_state_tying(@, tying)]]

\* f"statistics/{name}/Pron{..}Lm{..}Pr{..}Altas{..}" for the given params
stats_alias(name) == <<"statistics/">> \o name \o <<"/Pron", "Lm", "Pr", "Altas">>

\* recognize_cart; tying is the kind of cart_tree_or_tying_config.
recognize_cart(S, key, epoch, crp_corpus, tying, calculate_statistics) ==
    LET e == S.experiments[key]
    IN IF ~e.declared THEN Raise(S, "KeyError")
       ELSE IF e.priors.kind = None THEN Raise(S, "AssertionError: set priors first")
       ELSE LET c == cart_crp(S.crp, crp_corpus, tying)
                S1 == [S EXCEPT !.jobs = Append(@, "CreateDummyMixturesJob"),
                                !.crp = c.stored]
            IN IF e.train_job.kind = None THEN Raise(S1, "AttributeError")
               ELSE LET S2 == [S1 EXCEPT !.jobs = Append(@, "AdvancedTreeSearchJob"),
                                         !.ret = <<"HybridDecoder", c.used.state_tying.type>>]
                    IN IF ~calculate_statistics THEN S2
                       ELSE [S2 EXCEPT
                               !.jobs = Append(@, "ExtractSearchStatisticsJob"),
                               !.aliases = Append(@, stats_alias(e.name)),
                               !.outputs = @ \o <<stats_alias(e.name) \o <<"/avg_states">>,
                                                  stats_alias(e.name) \o <<"/avg_trees">>,
                                                  stats_alias(e.name) \o <<"/rtf">>>>]

(***************************************************************************)
(* The orchestrator's calls as actions.  A call that raises keeps whatever *)
(* it changed before the exception.                                        *)
(***************************************************************************)
Commit(R, op, key) ==
    /\ experiments' = R.experiments
    /\ cfg_heap' = R.cfg_heap
    /\ crp' = R.crp
    /\ train_input_data' = R.train_input_data
    /\ fh_last' = [op |-> op, key |-> key, exc |-> R.exc, jobs |-> R.jobs,
                   aliases |-> R.aliases, outputs |-> R.outputs, ret |-> R.ret,
                   inputs |-> R.inputs]

InitFhVars ==
    /\ experiments = [k \in Keys |-> Undeclared]
    /\ cfg_heap = InitCfgHeap
    /\ crp = InitCrp
    /\ train_input_data \in TrainDataInputs
    /\ fh_last = NoCall

IdleFhVars ==
    /\ experiments = [k \in Keys |-> Undeclared]
    /\ cfg_heap = InitCfgHeap
    /\ crp = InitCrp
    /\ train_input_data = IdleTrainDataInput
    /\ fh_last = NoCall

SetExperimentDict ==
    \E key \in Keys, alignment \in Alignments, context \in Contexts :
        Commit(set_experiment_dict(Sys, key, alignment, context, ""),
               "set_experiment_dict", key)

SetReturnnConfigForExperiment ==
    \E key \in Keys, returnn_config \in CfgRefs :
        Commit(set_returnn_config_for_experiment(Sys, key, returnn_config),
               "set_returnn_config_for_experiment", key)

ReturnnTraining ==
    \E key \in Keys, returnn_config \in CfgRefs \cup {NoRef}, on_2080 \in BOOLEAN :
        Commit(returnn_training(Sys, key, returnn_config # NoRef,
                                IF returnn_config = NoRef THEN NoConfig
                                ELSE cfg_heap[returnn_config], on_2080),
               "returnn_training", key)

ReturnnTrainingFromHdf ==
    \E key \in Keys, returnn_config \in CfgRefs \cup {NoRef},
       has_partition_epochs \in BOOLEAN, mode \in UpdateModes :
        Commit(returnn_training_from_hdf(Sys, key, returnn_config, has_partition_epochs,
                                         TRUE, mode),
               "returnn_training_from_hdf", key)

ReturnnRasrTraining ==
    \E key \in Keys, in_args \in BOOLEAN, returnn_config \in CfgRefs :
        Commit(returnn_rasr_training(Sys, key, in_args, returnn_config, TRUE),
               "returnn_rasr_training", key)

SetGraphForExperiment ==
    \E key \in Keys, override_cfg \in CfgRefs \cup {NoRef} :
        Commit(set_graph_for_experiment(Sys, key, override_cfg),
               "set_graph_for_experiment", key)

SetMonoPriorsReturnnRasr ==
    \E key \in Keys, epoch \in FhEpochs, returnn_config \in CfgRefs \cup {NoRef},
       data_share \in DataShares :
        Commit(set_mono_priors_returnn_rasr(Sys, key, epoch, returnn_config,
                                            "center-output", data_share),
               "set_mono_priors_returnn_rasr", key)

SetDiphonePriorsReturnnRasr ==
    \E key \in Keys, epoch \in FhEpochs, returnn_config \in CfgRefs \cup {NoRef},
       data_share \in DataShares :
        Commit(set_diphone_priors_returnn_rasr(Sys, key, epoch, returnn_config, data_share),
               "set_diphone_priors_returnn_rasr", key)

SetTriphonePriorsReturnnRasr ==
    \E key \in Keys, epoch \in FhEpochs, returnn_config \in CfgRefs \cup {NoRef},
       data_share \in DataShares :
        Commit(set_triphone_priors_returnn_rasr(Sys, key, epoch, returnn_config, data_share),
               "set_triphone_priors_returnn_rasr", key)

GetRecognizerAndArgs ==
    \E key \in Keys, context_type \in {"monophone", "mono_state_transition"},
       epoch \in FhEpochs, crp_corpus \in CrpCorpora, given_mixtures \in BOOLEAN :
        Commit(get_recognizer_and_args(Sys, key, context_type, epoch, crp_corpus,
                                       given_mixtures),
               "get_recognizer_and_args", key)

GetCartParams ==
    \E key \in Keys :
        Commit(get_cart_params(Sys, key), "get_cart_params", key)

RecognizeCart ==
    \E key \in Keys, epoch \in FhEpochs, crp_corpus \in CrpCorpora,
       tying \in {"RasrConfig", "Path"}, calculate_statistics \in BOOLEAN :
        Commit(recognize_cart(Sys, key, epoch, crp_corpus, tying, calculate_statistics),
               "recognize_cart", key)

(***************************************************************************)
(*                   FactoredHybridSystem.init_system                      *)
(***************************************************************************)

\* The corpus names, in the order sorted() gives them.
CorpusNames == <<"dev-other", "test-other", "train-other-960">>
CorpusNameSet == {CorpusNames[i] : i \in DOMAIN CorpusNames}

\* A data dictionary argument: None, or a dict with the given keys.
NoDataDict == [given |-> FALSE, keys |-> {}]
DataDicts == {NoDataDict} \cup {[given |-> TRUE, keys |-> K] : K \in SUBSET CorpusNameSet}

\* The constructor arguments init_system works on; with_lm are the corpora
\* whose RasrDataInput has an lm.
InitArgs ==
    [rasr_init_args : BOOLEAN,
     train_data : DataDicts,
     dev_data : DataDicts,
     test_data : DataDicts,
     with_lm : {{}, {"train-other-960"}}]

IdleInitArgs ==
    [rasr_init_args |-> FALSE, train_data |-> NoDataDict, dev_data |-> NoDataDict,
     test_data |-> NoDataDict, with_lm |-> {}]

\* The loop of assertions as it would be without self.test_data in the list.
init_params_given_but_test(a) ==
    a.rasr_init_args /\ a.train_data.given /\ a.dev_data.given

\* Lines 376-382: for param in [...]: assert param is not None
init_params_given(a) ==
    a.rasr_init_args /\ a.train_data.given /\ a.dev_data.given /\ a.test_data.given

\* sorted(d.items()): the keys of the dict in sorted order
RECURSIVE sorted_from(_, _)
sorted_from(keys, i) ==
    IF i > Len(CorpusNames) THEN <<>>
    ELSE (IF CorpusNames[i] \in keys THEN <<CorpusNames[i]>> ELSE <<>>)
         \o sorted_from(keys, i + 1)
sorted_keys(d) == sorted_from(d.keys, 1)

\* RasrSystem._assert_corpus_name_unique(train_data, dev_data, test_data):
\* the names of all dictionaries together hold no name twice.
corpus_names_unique(a) ==
    Len(sorted_keys(a.train_data)) + Len(sorted_keys(a.dev_data)) + Len(sorted_keys(a.test_data))
        = Cardinality(a.train_data.keys \cup a.dev_data.keys \cup a.test_data.keys)

\* Lines 387-398: the add_corpus calls of the three loops, in order.
add_corpus_calls(a) ==
    [i \in 1..Len(sorted_keys(a.train_data)) |->
        [key |-> sorted_keys(a.train_data)[i], role |-> "train",
         add_lm |-> sorted_keys(a.train_data)[i] \in a.with_lm]]
    \o [i \in 1..Len(sorted_keys(a.dev_data)) |->
        [key |-> sorted_keys(a.dev_data)[i], role |-> "dev", add_lm |-> TRUE]]
    \o [i \in 1..Len(sorted_keys(a.test_data)) |->
        [key |-> sorted_keys(a.test_data)[i], role |-> "test", add_lm |-> TRUE]]

InitInitVars ==
    /\ init_args \in InitArgs
    /\ init_pc = "idle"
    /\ am_configured = FALSE
    /\ added_corpora = <<>>
    /\ train_corpora = <<>>
    /\ dev_corpora = <<>>
    /\ test_corpora = <<>>

IdleInitVars ==
    /\ init_args = IdleInitArgs
    /\ init_pc = "idle"
    /\ am_configured = FALSE
    /\ added_corpora = <<>>
    /\ train_corpora = <<>>
    /\ dev_corpora = <<>>
    /\ test_corpora = <<>>

\* Lines 376-382
InitSystemAssertParams ==
    /\ init_pc = "idle"
    /\ init_pc' = IF init_params_given(init_args) THEN "init_am" ELSE "AssertionError"
    /\ UNCHANGED <<init_args, am_configured, added_corpora,
                   train_corpora, dev_corpora, test_corpora>>

\* Line 384
InitAm ==
    /\ init_pc = "init_am"
    /\ am_configured' = TRUE
    /\ init_pc' = "assert_unique"
    /\ UNCHANGED <<init_args, added_corpora, train_corpora, dev_corpora, test_corpora>>

\* Line 385
AssertCorpusNameUnique ==
    /\ init_pc = "assert_unique"
    /\ init_pc' = IF corpus_names_unique(init_args) THEN "add_corpora" ELSE "AssertionError"
    /\ UNCHANGED <<init_args, am_configured, added_corpora,
                   train_corpora, dev_corpora, test_corpora>>

\* Lines 387-398: one iteration of the loop that is running
AddCorpus ==
    /\ init_pc = "add_corpora"
    /\ Len(added_corpora) < Len(add_corpus_calls(init_args))
    /\ LET call == add_corpus_calls(init_args)[Len(added_corpora) + 1]
       IN /\ added_corpora' = Append(added_corpora, call)
          /\ train_corpora' = IF call.role = "train" THEN Append(train_corpora, call.key)
                              ELSE train_corpora
          /\ dev_corpora' = IF call.role = "dev" THEN Append(dev_corpora, call.key)
                            ELSE dev_corpora
          /\ test_corpora' = IF call.role = "test" THEN Append(test_corpora, call.key)
                             ELSE test_corpora
    /\ UNCHANGED <<init_args, init_pc, am_configured>>

\* The end of init_system
InitSystemReturn ==
    /\ init_pc = "add_corpora"
    /\ Len(added_corpora) = Len(add_corpus_calls(init_args))
    /\ init_pc' = "done"
    /\ UNCHANGED <<init_args, am_configured, added_corpora,
                   train_corpora, dev_corpora, test_corpora>>

\* A data dictionary handed to init_datasets: None, or a dict with its keys
\* in dict order.
NoDatasetDict == [given |-> FALSE, keys |-> <<>>]
dataset_dict(keys) == [given |-> TRUE, keys |-> keys]

\* The arguments of init_datasets: the dictionaries that
\* set_rasr_returnn_input_datas builds (keys f"{corpus}.train" and so on),
\* with the optional ones left out or empty, a dev key that init_system
\* registered already, and a dev dictionary that repeats a cv key.
DatasetArgs ==
    [train_data : {dataset_dict(<<"train-other-960.train">>)},
     cv_data : {dataset_dict(<<"train-other-960.cvtrain">>)},
     devtrain_data : {NoDatasetDict, dataset_dict(<<"train-other-960.devtrain">>)},
     dev_data : {NoDatasetDict, dataset_dict(<<"dev-other.nn">>), dataset_dict(<<"dev-other">>),
                 dataset_dict(<<"dev-other.nn", "train-other-960.cvtrain">>)},
     test_data : {NoDatasetDict, dataset_dict(<<>>), dataset_dict(<<"test-other.nn">>)}]

\* Lines 408-410: d if d is not None else {}
or_empty_dict(d) == IF d.given THEN d ELSE dataset_dict(<<>>)

\* RasrSystem._assert_corpus_name_unique(train_data, cv_data, devtrain_data,
\* dev_data, test_data): the names of all dictionaries together hold no
\* name twice.
dataset_names_unique(a) ==
    LET names == a.train_data.keys \o a.cv_data.keys \o or_empty_dict(a.devtrain_data).keys
                   \o or_empty_dict(a.dev_data).keys \o or_empty_dict(a.test_data).keys
    IN \A i, j \in DOMAIN names : names[i] = names[j] => i = j

\* The CRP of the data input stored under a key other than the train key.
dataset_crp(key) == [segment_path |-> key \o ".segments"]

\* _set_train_data / _set_eval_data: self.crp[c_key] is the CRP of c_data,
\* for the keys of the dictionary in order.
RECURSIVE set_data(_, _, _, _)
set_data(crps, keys, train_key, train_data) ==
    IF keys = <<>> THEN crps
    ELSE LET c_key == Head(keys)
             c_crp == IF c_key = train_key THEN train_data.crp ELSE dataset_crp(c_key)
         IN set_data([k \in DOMAIN crps \cup {c_key} |-> IF k = c_key THEN c_crp ELSE crps[k]],
                     Tail(keys), train_key, train_data)

\* init_datasets, called when init_system has returned; data is the data
\* input under the train key.
InitDatasets ==
    /\ init_pc = "done"
    /\ \E a \in DatasetArgs, data \in TrainDataInputs :
         LET devtrain_data == or_empty_dict(a.devtrain_data)
             dev_data == or_empty_dict(a.dev_data)
             test_data == or_empty_dict(a.test_data)
             train_key == Head(a.train_data.keys)
         IN IF ~dataset_names_unique(a)
            THEN /\ init_pc' = "init_datasets_AssertionError"
                 /\ UNCHANGED <<train_corpora, dev_corpora, test_corpora,
                                crp, train_input_data>>
            ELSE /\ init_pc' = "init_datasets_done"
                 /\ train_input_data' = data
                 /\ train_corpora' = train_corpora \o a.train_data.keys
                 /\ dev_corpora' = dev_corpora \o dev_data.keys
                 /\ test_corpora' = test_corpora \o test_data.keys
                 /\ crp' = set_data(set_data(set_data(set_data(set_data(crp,
                               a.train_data.keys, train_key, data),
                               a.cv_data.keys, train_key, data),
                               devtrain_data.keys, train_key, data),
                               dev_data.keys, train_key, data),
                               test_data.keys, train_key, data)
    /\ UNCHANGED <<init_args, am_configured, added_corpora>>


(***************************************************************************)
(*        FactoredHybridSystem._update_am_setting_for_all_crps             *)
(*                                                                         *)
(* Names are sequences of pieces, so that Python's `"train" in name` is    *)
(* the search for the piece "train".                                       *)
(***************************************************************************)
MaxStatesPerPhone == 3

\* A tdp type given as a string, and one given as a tuple.
str_type(s) == [preset |-> s, sub |-> None]
tuple_type(a, b) == [preset |-> a, sub |-> b]
NoTdpType == [preset |-> None, sub |-> None]

TdpTypes == {str_type("heuristic"), str_type("default"), str_type("custom"),
             tuple_type("heuristic", "monostate")}

\* self.corpora.keys(), in dict order.
CorporaKeys ==
    {<< <<"train", "-other-960">> >>,
     << <<"train", "-other-960">>, <<"dev-other">> >>,
     << <<"dev-other">>, <<"train", "-other-960">>, <<"test-other">> >>,
     << <<"train", "-other-960">>, <<"dev-other">>, <<"cv-", "train", "-other">> >>}

TdpArgs ==
    [train_tdp_type : TdpTypes, eval_tdp_type : TdpTypes,
     n_states_per_phone : 1..MaxStatesPerPhone, corpora : CorporaKeys]

IdleTdpArgs ==
    [train_tdp_type |-> str_type("default"), eval_tdp_type |-> str_type("default"),
     n_states_per_phone |-> 1, corpora |-> << <<"train", "-other-960">> >>]

\* "train" in name
contains_train(name) == \E i \in DOMAIN name : name[i] = "train"

\* set_crp_pairings: the roles train, cvtrain, devtrain and every corpus but
\* the train corpus; a role with "train" in its name is paired with
\* f"{train_key}.{role}", any other with itself.
set_crp_pairings(keys) ==
    LET train_keys == SelectSeq(keys, contains_train)
        train_key == train_keys[1]
        all_names == << <<"train">>, <<"cv", "train">>, <<"dev", "train">> >>
                        \o SelectSeq(keys, LAMBDA n : n # train_key)
    IN [i \in DOMAIN all_names |->
          [role |-> all_names[i],
           crp |-> IF contains_train(all_names[i])
                   THEN train_key \o <<".">> \o all_names[i]
                   ELSE all_names[i]]]

\* The resolution as it would be with a threepartite model from one state on.
resolve_tdp_type_from_one_state(tdp_type, n_states_per_phone) ==
    IF tdp_type = str_type("heuristic")
    THEN IF n_states_per_phone >= 1
         THEN tuple_type("heuristic", "threepartite")
         ELSE tuple_type("heuristic", "monostate")
    ELSE tdp_type

\* Lines 531-536: the "heuristic" preset becomes a tuple with its sub-preset.
resolve_tdp_type(tdp_type, n_states_per_phone) ==
    IF tdp_type = str_type("heuristic")
    THEN IF n_states_per_phone > 1
         THEN tuple_type("heuristic", "threepartite")
         ELSE tuple_type("heuristic", "monostate")
    ELSE tdp_type

\* Lines 488-498: _update_crp_am_setting knows "default" and tuples; anything
\* else ends the process with sys.exit().
tdp_type_known(tdp_type) == tdp_type = str_type("default") \/ tdp_type.sub # None

\* Lines 539-550: the preset a role gets.
tdp_type_of_role(role, types) == IF contains_train(role) THEN types.train ELSE types.eval

CrpKeysOf(names) == {names[i].crp : i \in DOMAIN names}

InitTdpVars ==
    /\ tdp_args \in TdpArgs
    /\ tdp_names = set_crp_pairings(tdp_args.corpora)
    /\ tdp_types = [train |-> tdp_args.train_tdp_type, eval |-> tdp_args.eval_tdp_type]
    /\ tdp_pc = "start"
    /\ tdp_idx = 0
    /\ tdp_crp = [c \in CrpKeysOf(tdp_names) |-> NoTdpType]
    /\ tdp_calls = <<>>

IdleTdpVars ==
    /\ tdp_args = IdleTdpArgs
    /\ tdp_names = set_crp_pairings(tdp_args.corpora)
    /\ tdp_types = [train |-> tdp_args.train_tdp_type, eval |-> tdp_args.eval_tdp_type]
    /\ tdp_pc = "idle"
    /\ tdp_idx = 0
    /\ tdp_crp = [c \in CrpKeysOf(tdp_names) |-> NoTdpType]
    /\ tdp_calls = <<>>

\* Lines 530-536: the loop over types.
ResolveTdpTypes ==
    /\ tdp_pc = "start"
    /\ tdp_types' = [t \in {"train", "eval"} |->
                        resolve_tdp_type(tdp_types[t], tdp_args.n_states_per_phone)]
    /\ tdp_pc' = "loop"
    /\ UNCHANGED <<tdp_args, tdp_names, tdp_idx, tdp_crp, tdp_calls>>

\* Lines 538-550: one iteration of the loop over self.crp_names, with the
\* call of _update_crp_am_setting it makes.
UpdateCrpAmSetting ==
    /\ tdp_pc = "loop"
    /\ tdp_idx < Len(tdp_names)
    /\ LET entry == tdp_names[tdp_idx + 1]
           tdp_type == tdp_type_of_role(entry.role, tdp_types)
       IN /\ tdp_calls' = Append(tdp_calls, entry.crp)
          /\ IF tdp_type_known(tdp_type)
             THEN /\ tdp_crp' = [tdp_crp EXCEPT ![entry.crp] = tdp_type]
                  /\ tdp_idx' = tdp_idx + 1
                  /\ tdp_pc' = "loop"
             ELSE /\ tdp_pc' = "SystemExit"
                  /\ UNCHANGED <<tdp_crp, tdp_idx>>
    /\ UNCHANGED <<tdp_args, tdp_names, tdp_types>>

UpdateAmSettingReturn ==
    /\ tdp_pc = "loop"
    /\ tdp_idx = Len(tdp_names)
    /\ tdp_pc' = "done"
    /\ UNCHANGED <<tdp_args, tdp_names, tdp_types, tdp_idx, tdp_crp, tdp_calls>>

(***************************************************************************)
(*   FactoredHybridSystem.prepare_train_data_with_cv_from_train and        *)
(*   prepare_train_data_with_separate_cv                                   *)
(*                                                                         *)
(* A segment list is the lines lo..hi of a file; the file of the split     *)
(* lists is the shuffled segment list of the train corpus.  A fraction is  *)
(* a pair of numerator and denominator.                                    *)
(***************************************************************************)

\* 3000 / total_train_num_segments
CvTargetSegments == 3000
\* TailJob(train_segments, num_lines=1000, ...)
DevTrainNumLines == 1000

\* num_segments[self.train_key] for the LibriSpeech train corpora.
TableSegmentCounts == {28539, 104014, 132553, 148688, 281241}

\* Number of segments self.filter_segments removes; 0 for the empty filter.
FilteredOut(total) == {0, 1, total - 3500, total - 800}

\* Number of lines of the train segment file of self.cv_info.
SeparateTrainLines == {0, 1, 999, 1000, 1001, 2500}
SeparateCvLines == {300}

\* crp.concurrent of the train corpus input.
Concurrencies == {1, 50, 300}

PrepArgs ==
    UNION {{[is_cv_separate_from_train |-> FALSE, total_train_num_segments |-> t,
             filtered_out |-> f, cv_info_train_lines |-> 0, cv_info_cv_lines |-> c,
             concurrent |-> k] :
               f \in FilteredOut(t), c \in SeparateCvLines, k \in Concurrencies} :
           t \in TableSegmentCounts}
    \cup
    {[is_cv_separate_from_train |-> TRUE, total_train_num_segments |-> 281241,
      filtered_out |-> 0, cv_info_train_lines |-> m, cv_info_cv_lines |-> c,
      concurrent |-> k] :
        m \in SeparateTrainLines, c \in SeparateCvLines, k \in Concurrencies}

IdlePrepArgs ==
    [is_cv_separate_from_train |-> FALSE, total_train_num_segments |-> 281241,
     filtered_out |-> 0, cv_info_train_lines |-> 0, cv_info_cv_lines |-> 300,
     concurrent |-> 1]

Lines(file, lo, hi) == [file |-> file, lo |-> lo, hi |-> hi]
NoLines == Lines(None, 1, 0)
NumLines(l) == IF l.hi < l.lo THEN 0 ELSE l.hi - l.lo + 1

Fraction(num, den) == [num |-> num, den |-> den]
\* 1 - f
one_minus(f) == Fraction(f.den - f.num, f.den)
\* int(n * f)
int_times(n, f) == (n * f.num) \div f.den

\* The first num_lines lines of l.
TailJob_first_lines(l, num_lines) ==
    [l EXCEPT !.hi = IF NumLines(l) > num_lines THEN l.lo + num_lines - 1 ELSE l.hi]

\* text.TailJob(l, num_lines).out: the last num_lines lines of l.
TailJob(l, num_lines) ==
    [l EXCEPT !.lo = IF NumLines(l) > num_lines THEN l.hi - num_lines + 1 ELSE l.lo]

\* ShuffleAndSplitSegmentsJob(all_segments, split).out_segments, for n
\* segments: the shuffled list is cut at int(n * fraction), the parts taken
\* in the sorted order of their names ("cv" before "train"), and the last
\* part ends with the list.
ShuffleAndSplitSegmentsJob(n, split) ==
    LET cut == int_times(n, split.cv)
    IN [cv |-> Lines("ShuffleAndSplitSegmentsJob", 1, cut),
        train |-> Lines("ShuffleAndSplitSegmentsJob", cut + 1, n)]

\* as_returnn_rasr_data_input(): a data input with its own copy of the CRP of
\* the train corpus input.
as_returnn_rasr_data_input(args) ==
    [corpus_file |-> "train_corpus_path", segment_path |-> NoLines,
     concurrent |-> args.concurrent]

\* update_crp_with(segment_path=..., concurrent=...)
update_crp_with(data, segment_path, concurrent) ==
    [data EXCEPT !.segment_path = segment_path, !.concurrent = concurrent]

\* Line 556 as it would be with a tenth of the corpus for cross-validation.
cv_size_tenth(total_train_num_segments) ==
    Fraction(total_train_num_segments \div 10, total_train_num_segments)

\* Line 556: cv_size = 3000 / total_train_num_segments
cv_size_of(total_train_num_segments) ==
    Fraction(CvTargetSegments, total_train_num_segments)

\* Lines 570 and 632 as they would be if dev-train were the whole train list.
devtrain_segments_whole_list(train_segments) == train_segments

\* Lines 570 and 632 as they would be with the first lines of the train list.
devtrain_segments_first_lines(train_segments) ==
    TailJob_first_lines(train_segments, DevTrainNumLines)

\* Lines 570 and 632:
\* text.TailJob(train_segments, num_lines=1000, zip_output=False).out
devtrain_segments_of(train_segments) == TailJob(train_segments, DevTrainNumLines)

NoSplit == [train |-> Fraction(0, 1), cv |-> Fraction(0, 1)]
NoSegments == [train |-> NoLines, cv |-> NoLines, devtrain |-> NoLines]
NoInput == [corpus_file |-> None, segment_path |-> NoLines, concurrent |-> 0]
NoInputs == [train |-> NoInput, cv |-> NoInput, devtrain |-> NoInput]

InitPrepVars ==
    /\ prep_args \in PrepArgs
    /\ prep_pc = "start"
    /\ prep_split = NoSplit
    /\ prep_segments = NoSegments
    /\ prep_inputs = NoInputs

IdlePrepVars ==
    /\ prep_args = IdlePrepArgs
    /\ prep_pc = "idle"
    /\ prep_split = NoSplit
    /\ prep_segments = NoSegments
    /\ prep_inputs = NoInputs

\* prepare_train_data_with_cv_from_train
PrepareTrainDataWithCvFromTrain ==
    /\ prep_pc = "start"
    /\ ~prep_args.is_cv_separate_from_train
    /\ LET total_train_num_segments == prep_args.total_train_num_segments
           cv_size == cv_size_of(total_train_num_segments)
           all_segments == total_train_num_segments - prep_args.filtered_out
           split == [train |-> one_minus(cv_size), cv |-> cv_size]
           out_segments == ShuffleAndSplitSegmentsJob(all_segments, split)
           train_segments == out_segments.train
           cv_segments == out_segments.cv
           devtrain_segments == devtrain_segments_of(train_segments)
       IN /\ prep_split' = split
          /\ prep_segments' = [train |-> train_segments, cv |-> cv_segments,
                               devtrain |-> devtrain_segments]
          /\ prep_inputs' =
               [train |-> update_crp_with(as_returnn_rasr_data_input(prep_args),
                                          train_segments, 1),
                cv |-> update_crp_with(as_returnn_rasr_data_input(prep_args),
                                       cv_segments, 1),
                devtrain |-> update_crp_with(as_returnn_rasr_data_input(prep_args),
                                             devtrain_segments, 1)]
    /\ prep_pc' = "done"
    /\ UNCHANGED prep_args

\* prepare_train_data_with_separate_cv
PrepareTrainDataWithSeparateCv ==
    /\ prep_pc = "start"
    /\ prep_args.is_cv_separate_from_train
    /\ LET train_segments == Lines("cv_info.train_segments", 1,
                                   prep_args.cv_info_train_lines)
           cv_segments == Lines("cv_info.cv_segments", 1, prep_args.cv_info_cv_lines)
           devtrain_segments == devtrain_segments_of(train_segments)
       IN /\ prep_segments' = [train |-> train_segments, cv |-> cv_segments,
                               devtrain |-> devtrain_segments]
          /\ prep_inputs' =
               [train |-> [update_crp_with(as_returnn_rasr_data_input(prep_args),
                                           train_segments, 1)
                             EXCEPT !.corpus_file = "cv_info.train-dev_corpus"],
                cv |-> [update_crp_with(as_returnn_rasr_data_input(prep_args),
                                        cv_segments, 1)
                          EXCEPT !.corpus_file = "cv_info.cv_corpus"],
                devtrain |-> update_crp_with(as_returnn_rasr_data_input(prep_args),
                                             devtrain_segments, 1)]
    /\ prep_pc' = "done"
    /\ UNCHANGED <<prep_args, prep_split>>

(***************************************************************************)
(*                          ConformerEncoder                               *)
(*                                                                         *)
(* A string is the sequence of its characters.  A layer is the block it    *)
(* belongs to, the parts of its name after the block prefix               *)
(* "conformer_block_%02i", and its pool size (0 if it is no pooling        *)
(* layer).  The options not listed in conf_args have their defaults.       *)
(***************************************************************************)
MaxBlocks == 4

\* subsample: None or "" (both <<>>), "2", "2_1", "1_2", "10", "3_2_1_1".
Subsamples ==
    {<<>>, <<"2">>, <<"2", "_", "1">>, <<"1", "_", "2">>, <<"1", "0">>,
     <<"3", "_", "2", "_", "1", "_", "1">>}

\* input_layer: None (<<>>) or a string.
NoInputLayer == <<>>
InputLayers ==
    {NoInputLayer,
     <<"l", "s", "t", "m", "-", "2">>, <<"l", "s", "t", "m", "-", "4">>,
     <<"l", "s", "t", "m", "-", "6">>, <<"l", "s", "t", "m", "-", "8">>,
     <<"l", "s", "t", "m", "-", "3">>, <<"l", "s", "t", "m">>,
     <<"l", "s", "t", "m", "-", "x">>,
     <<"c", "o", "n", "v", "-", "4">>, <<"c", "o", "n", "v", "-", "6">>,
     <<"c", "o", "n", "v", "-", "2">>}

\* weight_noise_layers: None (<<>>, replaced by [] in line 207) or a list.
WeightNoiseLayers ==
    {<<>>, <<"mhsa">>, <<"conv", "frontend_conv">>, <<"ff">>, <<"mhsa", "ffmod">>}

\* The constructor arguments: every combination of the block options with
\* the default front end, and every front end with the default block options.
ConfArgs ==
    [num_blocks : 1..MaxBlocks, subsample : Subsamples,
     convolution_first : BOOLEAN, no_mhsa_module : BOOLEAN,
     sandwich_conv : BOOLEAN, block_final_norm : BOOLEAN,
     input_layer : {<<"l", "s", "t", "m", "-", "6">>},
     weight_noise_layers : {<<>>}, create_only_blocks : BOOLEAN]
    \cup
    [num_blocks : {1}, subsample : {<<>>},
     convolution_first : {FALSE}, no_mhsa_module : {FALSE},
     sandwich_conv : {FALSE}, block_final_norm : {TRUE},
     input_layer : InputLayers,
     weight_noise_layers : WeightNoiseLayers, create_only_blocks : BOOLEAN]

IdleConfArgs ==
    [num_blocks |-> 1, subsample |-> <<>>, convolution_first |-> FALSE,
     no_mhsa_module |-> FALSE, sandwich_conv |-> FALSE, block_final_norm |-> TRUE,
     input_layer |-> <<"l", "s", "t", "m", "-", "6">>,
     weight_noise_layers |-> <<>>, create_only_blocks |-> FALSE]

\* s.split("_")
RECURSIVE split_underscore(_, _)
split_underscore(s, piece) ==
    IF s = <<>> THEN <<piece>>
    ELSE IF Head(s) = "_" THEN <<piece>> \o split_underscore(Tail(s), <<>>)
    ELSE split_underscore(Tail(s), Append(piece, Head(s)))

DigitValue(c) ==
    CASE c = "0" -> 0 [] c = "1" -> 1 [] c = "2" -> 2 [] c = "3" -> 3 [] c = "4" -> 4
      [] c = "5" -> 5 [] c = "6" -> 6 [] c = "7" -> 7 [] c = "8" -> 8 [] c = "9" -> 9

\* int(piece) for a string of digits
RECURSIVE int_of(_, _)
int_of(piece, acc) ==
    IF piece = <<>> THEN acc ELSE int_of(Tail(piece), 10 * acc + DigitValue(Head(piece)))

\* Lines 180-183: [1] * num_blocks, overwritten by the first num_blocks
\* factors of the subsample string.
subsample_list(subsample, num_blocks) ==
    IF subsample = <<>> THEN [idx \in 1..num_blocks |-> 1]
    ELSE LET pieces == split_underscore(subsample, <<>>)
         IN [idx \in 1..num_blocks |->
                IF idx <= Len(pieces) THEN int_of(pieces[idx], 0) ELSE 1]

\* A layer of the network: "from" is the set of the layers it reads.
Ref(i, name) == [block |-> i, name |-> name]
Layer(i, name, pool_size, from) ==
    [block |-> i, name |-> name, pool_size |-> pool_size, from |-> from]

\* Layers names[1], names[2], ... of one module, each reading the one before
\* it and the first reading source.
Chain(i, prefix, names, source) ==
    {Layer(i, prefix \o <<names[k]>>, 0,
           IF k = 1 THEN source ELSE {Ref(i, prefix \o <<names[k - 1]>>)})
       : k \in DOMAIN names}

\* A module: a chain of layers and the residual layer that adds the source
\* to the last layer of the chain; out is the name the method returns.
Module(i, prefix, names, source) ==
    [net |-> Chain(i, prefix, names, source)
               \cup {Layer(i, prefix \o <<"res">>, 0,
                           {Ref(i, prefix \o <<names[Len(names)]>>)} \cup source)},
     out |-> {Ref(i, prefix \o <<"res">>)}]

\* _create_ff_module
create_ff_module(i, k, source) ==
    Module(i, <<"ffmod", ToString(k)>>,
           <<"ln", "ff1", "swish", "drop1", "ff2", "drop2", "half_step">>, source)

\* _create_mhsa_module: the self-attention layer "{prefix}_self_att" reads the
\* layer norm, the relative positional encoding is its key shift.
create_mhsa_module(i, source) ==
    LET p == <<"self_att">>
    IN [net |-> {Layer(i, p \o <<"ln">>, 0, source),
                 Layer(i, p \o <<"ln_rel_pos_enc">>, 0, {Ref(i, p \o <<"ln">>)}),
                 Layer(i, p, 0, {Ref(i, p \o <<"ln">>)}),
                 Layer(i, p \o <<"linear">>, 0, {Ref(i, p)}),
                 Layer(i, p \o <<"dropout">>, 0, {Ref(i, p \o <<"linear">>)}),
                 Layer(i, p \o <<"res">>, 0, {Ref(i, p \o <<"dropout">>)} \cup source)},
        out |-> {Ref(i, p \o <<"res">>)}]

\* _create_convolution_module; prefix is <<"sandwich">> for the sandwich module.
create_convolution_module(i, prefix, source, half_step) ==
    Module(i, prefix \o <<"conv_mod">>,
           <<"ln", "pointwise_conv1", "glu", "depthwise_conv2", "bn", "swish",
             "pointwise_conv2", "drop">>
              \o (IF half_step THEN <<"half_step">> ELSE <<>>),
           source)

\* Lines 440-458: the modules between the two feed-forward modules, reading
\* the first feed-forward module.
inner_modules(args, i, ff_module1) ==
    IF args.convolution_first
    THEN LET conv_module_ == create_convolution_module(i, <<>>, ff_module1, FALSE)
             conv_module == create_mhsa_module(i, conv_module_.out)
         IN [net |-> conv_module_.net \cup conv_module.net, out |-> conv_module.out]
    ELSE LET sandwich == IF ~args.no_mhsa_module /\ args.sandwich_conv
                         THEN create_convolution_module(i, <<"sandwich">>, ff_module1, TRUE)
                         ELSE [net |-> {}, out |-> ff_module1]
             mhsa == IF args.no_mhsa_module THEN [net |-> {}, out |-> ff_module1]
                     ELSE create_mhsa_module(i, sandwich.out)
             conv_module == create_convolution_module(i, <<>>, mhsa.out, args.sandwich_conv)
         IN [net |-> sandwich.net \cup mhsa.net \cup conv_module.net,
             out |-> conv_module.out]

\* A block whose final layer norm reads the block's source instead of the
\* second feed-forward module.
block_modules_final_norm_of_source(args, i, source) ==
    LET ff_module1 == create_ff_module(i, 1, source)
        inner == inner_modules(args, i, ff_module1.out)
        ff_module2 == create_ff_module(i, 2, inner.out)
        modules == ff_module1.net \cup inner.net \cup ff_module2.net
    IN [net |-> modules \cup {Layer(i, <<"ln">>, 0, source)},
        out |-> {Ref(i, <<"ln">>)}]

\* Lines 436-463: the modules of block i and its final layer norm.
block_modules(args, i, source) ==
    LET ff_module1 == create_ff_module(i, 1, source)
        inner == inner_modules(args, i, ff_module1.out)
        ff_module2 == create_ff_module(i, 2, inner.out)
        modules == ff_module1.net \cup inner.net \cup ff_module2.net
    IN IF args.block_final_norm
       THEN [net |-> modules \cup {Layer(i, <<"ln">>, 0, ff_module2.out)},
             out |-> {Ref(i, <<"ln">>)}]
       ELSE [net |-> modules, out |-> ff_module2.out]

\* Line 465: assert 0 <= i - 1 < len(self.subsample)
subsample_assert(args, i) == 0 <= i - 1 /\ i - 1 < Len(args.subsample)

\* Lines 464-468: the pooling layer of block i, named after the layer res
\* it reads.
block_pool(args, list, i, res) ==
    IF args.subsample # <<>> /\ list[i] > 1
    THEN LET name == (CHOOSE r \in res : TRUE).name \o <<"pool", ToString(i)>>
         IN [net |-> {Layer(i, name, list[i], res)}, out |-> {Ref(i, name)}]
    ELSE [net |-> {}, out |-> res]

\* s.split("-")
RECURSIVE split_dash(_, _)
split_dash(s, piece) ==
    IF s = <<>> THEN <<piece>>
    ELSE IF Head(s) = "-" THEN <<piece>> \o split_dash(Tail(s), <<>>)
    ELSE split_dash(Tail(s), Append(piece, Head(s)))

\* Whether int(piece) succeeds.
is_int(piece) ==
    /\ piece # <<>>
    /\ \A k \in DOMAIN piece :
         piece[k] \in {"0", "1", "2", "3", "4", "5", "6", "7", "8", "9"}

\* "lstm" in s
contains_lstm(s) ==
    \E k \in 1..(Len(s) - 3) : SubSeq(s, k, k + 3) = <<"l", "s", "t", "m">>

\* Lines 489-495: pool_sizes of the LSTM front end, <<>> for None.
lstm_pool_sizes(sample_factor) ==
    IF sample_factor = 2 THEN <<2, 1>>
    ELSE IF sample_factor = 4 THEN <<2, 2>>
    ELSE IF sample_factor = 6 THEN <<3, 2>>
    ELSE <<>>

\* ReturnnNetwork.add_lstm_layers with bidirectional=True: per layer a forward
\* and a backward LSTM, followed by a pooling layer while pool sizes are left.
RECURSIVE add_lstm_layers(_, _, _, _)
add_lstm_layers(source, layer, num_layers, pool_sizes) ==
    IF layer = num_layers THEN [net |-> {}, out |-> source]
    ELSE LET n == ToString(layer)
             fw == <<"lstm" \o n \o "_fw">>
             bw == <<"lstm" \o n \o "_bw">>
             pool == <<"lstm" \o n \o "_pool">>
             lstms == {Layer(0, fw, 0, source), Layer(0, bw, 0, source)}
             pooled == layer + 1 <= Len(pool_sizes)
             src == IF pooled THEN {Ref(0, pool)} ELSE {Ref(0, fw), Ref(0, bw)}
             rest == add_lstm_layers(src, layer + 1, num_layers, pool_sizes)
         IN [net |-> lstms
                       \cup (IF pooled
                             THEN {Layer(0, pool, pool_sizes[layer + 1],
                                         {Ref(0, fw), Ref(0, bw)})}
                             ELSE {})
                       \cup rest.net,
             out |-> rest.out]

\* Lines 510-562: the two convolution blocks of "conv-4" and "conv-6".
conv_front_end(data) ==
    [net |-> {Layer(0, <<"conv_out">>, 0, data),
              Layer(0, <<"conv_merged">>, 0, {Ref(0, <<"conv_out">>)})},
     out |-> {Ref(0, <<"conv_merged">>)}]

\* Lines 484-564: subsampled_input; exc is the exception the lines raise,
\* None if they raise none.
subsampled_input(args, data) ==
    LET il == args.input_layer
        pieces == split_dash(il, <<>>)
        fail(e) == [exc |-> e, net |-> {}, out |-> {}]
        ok(r) == [exc |-> None, net |-> r.net, out |-> r.out]
    IN IF il = NoInputLayer THEN ok([net |-> {}, out |-> data])
       ELSE IF contains_lstm(il)
       THEN IF Len(pieces) < 2 THEN fail("IndexError")
            ELSE IF ~is_int(pieces[2]) THEN fail("ValueError")
            ELSE ok(add_lstm_layers(data, 0, 2, lstm_pool_sizes(int_of(pieces[2], 0))))
       ELSE IF il \in {<<"c", "o", "n", "v", "-", "4">>, <<"c", "o", "n", "v", "-", "6">>}
       THEN ok(conv_front_end(data))
       ELSE fail("AssertionError")

\* Lines 476-575: the network in front of the blocks.
front_end(args) ==
    LET source == {Layer(0, <<"source">>, 0, {Ref(0, <<"data">>)})}
        sub == subsampled_input(args, {Ref(0, <<"source">>)})
    IN IF sub.exc # None THEN [exc |-> sub.exc, net |-> source \cup sub.net, out |-> {}]
       ELSE [exc |-> None,
             net |-> source \cup sub.net
                       \cup {Layer(0, <<"source_linear">>, 0, sub.out),
                             Layer(0, <<"source_dropout">>, 0,
                                   {Ref(0, <<"source_linear">>)})},
             out |-> {Ref(0, <<"source_dropout">>)}]

\* Lines 209-210: every entry of weight_noise_layers is a supported target.
weight_noise_layers_assert(args) ==
    \A k \in DOMAIN args.weight_noise_layers :
        args.weight_noise_layers[k] \in {"mhsa", "conv", "frontend_conv"}

InitConfVars ==
    /\ conf_args \in ConfArgs
    /\ conf_subsample_list = subsample_list(conf_args.subsample, conf_args.num_blocks)
    /\ conf_pc = "new"
    /\ conf_i = 0
    /\ conf_network = {}
    /\ conf_src = {}

IdleConfVars ==
    /\ conf_args = IdleConfArgs
    /\ conf_subsample_list = subsample_list(conf_args.subsample, conf_args.num_blocks)
    /\ conf_pc = "idle"
    /\ conf_i = 0
    /\ conf_network = {}
    /\ conf_src = {}

\* __init__: the checks of the arguments.
ConformerEncoderInit ==
    /\ conf_pc = "new"
    /\ conf_pc' = IF weight_noise_layers_assert(conf_args) THEN "start"
                  ELSE "AssertionError"
    /\ UNCHANGED <<conf_args, conf_subsample_list, conf_i, conf_network, conf_src>>

\* create_network up to the loop over the blocks: the blocks read self.input
\* with create_only_blocks, the front end otherwise.
CreateNetwork ==
    /\ conf_pc = "start"
    /\ IF conf_args.create_only_blocks
       THEN /\ conf_src' = {Ref(0, <<"data">>)}
            /\ conf_pc' = "blocks"
            /\ UNCHANGED conf_network
       ELSE LET front == front_end(conf_args)
            IN /\ conf_network' = conf_network \cup front.net
               /\ conf_src' = front.out
               /\ conf_pc' = IF front.exc = None THEN "blocks" ELSE front.exc
    /\ UNCHANGED <<conf_args, conf_subsample_list, conf_i>>

\* _create_conformer_block(i, conformer_block_src) for the next block.
CreateConformerBlock ==
    /\ conf_pc = "blocks"
    /\ conf_i < conf_args.num_blocks
    /\ LET i == conf_i + 1
           modules == block_modules(conf_args, i, conf_src)
           pool == block_pool(conf_args, conf_subsample_list, i, modules.out)
       IN IF conf_args.subsample # <<>> /\ ~subsample_assert(conf_args, i)
          THEN /\ conf_network' = conf_network \cup modules.net
               /\ conf_pc' = "AssertionError"
               /\ UNCHANGED <<conf_i, conf_src>>
          ELSE /\ conf_network' = conf_network \cup modules.net \cup pool.net
                                    \cup {Layer(i, <<>>, 0, pool.out)}
               /\ conf_src' = {Ref(i, <<>>)}
               /\ conf_i' = i
               /\ conf_pc' = "blocks"
    /\ UNCHANGED <<conf_args, conf_subsample_list>>

\* The copy layer after the last block, and the return.
CreateNetworkReturn ==
    /\ conf_pc = "blocks"
    /\ conf_i = conf_args.num_blocks
    /\ conf_network' = conf_network \cup {Layer(0, <<"encoder">>, 0, conf_src)}
    /\ conf_pc' = "done"
    /\ UNCHANGED <<conf_args, conf_subsample_list, conf_i, conf_src>>

(***************************************************************************)
(*                       baseline_04_big_short                             *)
(*                                                                         *)
(* The stochastic-depth and squeeze-and-excitation experiments.  A         *)
(* survival probability is a fraction <<numerator, denominator>>; an       *)
(* apply_stochastic_depth mapping is the set of its entries                *)
(* [block, module, prob].  A network is the set of its layer names.        *)
(***************************************************************************)
\* The number of encoder blocks: range(1, 12 + 1).
NumEncoderBlocks == 12

SdModules == {"ff_mod1", "ff_mod2", "self_att", "conv_mod"}
SeModuleTypes == {"ff_mod", "att_mod", "conv_mod"}

Half == <<1, 2>>
SdEntry(i, module, prob) == [block |-> i, module |-> module, prob |-> prob]

\* The mappings given to make_experiment_06_stoch_depth: at most two entries
\* on the first two and the last block.
SdMaps ==
    LET entries == {SdEntry(i, m, Half) : i \in {1, 2, NumEncoderBlocks}, m \in SdModules}
    IN {{}} \cup {{e1, e2} : e1, e2 \in entries}

\* original_args_big_baseline_00(): no stochastic depth, no squeeze-and-
\* excitation, one argument set per module type.
original_args_big_baseline_00 ==
    [conformer_defaults |-> [apply_stochastic_depth |-> {},
                             multipy_by_surivial_prob_ineval |-> TRUE],
     ff_default_args |-> [use_se_block |-> FALSE],
     sa_default_args |-> [use_se_block |-> FALSE],
     conv_default_args |-> [use_se_block |-> FALSE]]

\* get_defaults_02
get_defaults_02 == original_args_big_baseline_00

\* numpy.linspace(start, stop, num)[k] for fractions with one denominator:
\* start + k * (stop - start) / (num - 1).
linspace(start, stop, num, k) ==
    <<start[1] * (num - 1) + k * (stop[1] - start[1]), start[2] * (num - 1)>>

\* f"{i:03d}"
format_03d(i) ==
    IF i < 10 THEN "00" \o ToString(i)
    ELSE IF i < 100 THEN "0" \o ToString(i)
    ELSE ToString(i)

\* The name part of a module's layers after "enc_{i:03d}_".
module_tag(module) ==
    CASE module = "ff_mod1" -> "ff1_ff1"
      [] module = "ff_mod2" -> "ff2_ff2"
      [] module = "self_att" -> "sa"
      [] module = "conv_mod" -> "conv"

\* The argument set of a module in conformer_func_args.
module_func_args(func_args, module) ==
    CASE module = "ff_mod1" -> func_args.ff1_func_args
      [] module = "ff_mod2" -> func_args.ff2_func_args
      [] module = "self_att" -> func_args.sa_func_args
      [] module = "conv_mod" -> func_args.conv_func_args

\* make_conformer_04_stoch_depth_dynamic: per block and module the module's
\* output layer, its conditionally gated layer if apply_stochastic_depth
\* names the block and the module, and the activation layer of its
\* squeeze-and-excitation block if the module function builds such blocks and
\* the module's arguments ask for one.
make_conformer_04_stoch_depth_dynamic(func_args) ==
    UNION {LET prefix == "enc_" \o format_03d(i) \o "_" \o module_tag(m)
               gated == \E e \in func_args.apply_stochastic_depth :
                            e.block = i /\ e.module = m
               se == func_args.se_block_funcs
                       /\ module_func_args(func_args, m).use_se_block
           IN {prefix}
                \cup (IF gated THEN {prefix \o "_cond_train"} ELSE {})
                \cup (IF se THEN {prefix \o "_SE_act1"} ELSE {})
             : i \in 1..NumEncoderBlocks, m \in SdModules}

\* god.create_experiment_world_004: the record of the call and the data it
\* returns.
create_experiment_world_004(name, func_args, test_construction) ==
    [name |-> name, conformer_func_args |-> func_args,
     test_construction |-> test_construction,
     network |-> make_conformer_04_stoch_depth_dynamic(func_args)]

\* Lines 200-222 and 266-296: conformer_func_args; both feed-forward modules
\* get args.ff_default_args, **args.conformer_defaults is merged in.
conformer_func_args(args, se_block_funcs) ==
    [ff1_func_args |-> args.ff_default_args,
     ff2_func_args |-> args.ff_default_args,
     sa_func_args |-> args.sa_default_args,
     conv_func_args |-> args.conv_default_args,
     se_block_funcs |-> se_block_funcs,
     apply_stochastic_depth |-> args.conformer_defaults.apply_stochastic_depth,
     multipy_by_surivial_prob_ineval |->
         args.conformer_defaults.multipy_by_surivial_prob_ineval]

\* make_experiment_06_stoch_depth
make_experiment_06_stoch_depth(args, name, test_construct) ==
    create_experiment_world_004(name, conformer_func_args(args, FALSE), test_construct)

\* The flag set on every argument set as soon as one module type is requested.
set_use_se_block_everywhere(args, se_block_for_module) ==
    [args EXCEPT
       !.ff_default_args.use_se_block = @ \/ se_block_for_module # {},
       !.sa_default_args.use_se_block = @ \/ se_block_for_module # {},
       !.conv_default_args.use_se_block = @ \/ se_block_for_module # {}]

\* Lines 253-260: args_map[k]["use_se_block"] = True for the requested types.
set_use_se_block(args, se_block_for_module) ==
    [args EXCEPT
       !.ff_default_args.use_se_block = @ \/ "ff_mod" \in se_block_for_module,
       !.sa_default_args.use_se_block = @ \/ "att_mod" \in se_block_for_module,
       !.conv_default_args.use_se_block = @ \/ "conv_mod" \in se_block_for_module]

\* make_experiment_07_se_block
make_experiment_07_se_block(args, name, se_block_for_module, test_construct) ==
    create_experiment_world_004(
        name, conformer_func_args(set_use_se_block(args, se_block_for_module), TRUE),
        test_construct)

\* An update of args.conformer_defaults that is lost.
with_stochastic_depth_lost(args, sd_args) == args

\* args.conformer_defaults.update(OrderedDict(apply_stochastic_depth = sd_args))
with_stochastic_depth(args, sd_args) ==
    [args EXCEPT !.conformer_defaults.apply_stochastic_depth = sd_args]

\* Line 465: the mapping of test_sd.
test_sd_args == {SdEntry(1, "ff_mod1", Half), SdEntry(NumEncoderBlocks, "ff_mod1", Half)}

\* Lines 487-492, 512-516, 535-539: sd_args of sd_ffmod, sd_attmod, sd_conv_mod.
sd_args_all_blocks(modules) ==
    {SdEntry(i, m, Half) : i \in 1..NumEncoderBlocks, m \in modules}

\* Lines 554-562: sd_args of sd_ff_linear_scale.
sd_ff_linear_scale_args ==
    {SdEntry(i, m, linspace(<<1, 10>>, <<6, 10>>, NumEncoderBlocks, i - 1))
       : i \in 1..NumEncoderBlocks, m \in {"ff_mod1", "ff_mod2"}}

\* The calls of sd_ffmod(v), sd_attmod(v) and sd_conv_mod(v).
sd_call(name, modules, v) ==
    LET defaults == get_defaults_02
        args == IF v = 1
                THEN [defaults EXCEPT
                        !.conformer_defaults.multipy_by_surivial_prob_ineval = FALSE]
                ELSE defaults
    IN make_experiment_06_stoch_depth(
           with_stochastic_depth(args, sd_args_all_blocks(modules)), name, FALSE)

sd_ffmod(v) == sd_call("stoch-depth-v2." \o ToString(v) \o "-ff-mod", {"ff_mod1", "ff_mod2"}, v)
sd_attmod(v) == sd_call("stoch-depth-v2." \o ToString(v) \o "-att-mod", {"self_att"}, v)
sd_conv_mod(v) == sd_call("stoch-depth-v2." \o ToString(v) \o "-conv-mod", {"conv_mod"}, v)

\* The functions se_ffmod, se_attmod, se_convmod by the module type they ask
\* for, and the end of their experiment names.
se_function(k) ==
    CASE k = "ff_mod" -> "se_ffmod" [] k = "att_mod" -> "se_attmod" [] k = "conv_mod" -> "se_convmod"
se_name(k) ==
    CASE k = "ff_mod" -> "ff-mod" [] k = "att_mod" -> "att-mod" [] k = "conv_mod" -> "conv-mod"

\* The calls of se_ffmod, se_attmod, se_convmod.
se_call(name, se_block_for_module) ==
    make_experiment_07_se_block(get_defaults_02, name, se_block_for_module, FALSE)

\* The layer names test_sd asserts to be in the network.
test_sd_asserts ==
    {"enc_001_ff1_ff1_cond_train", "enc_012_ff1_ff1_cond_train"}

\* The layer names se_test asserts to be in the network.
se_test_asserts ==
    UNION {{"enc_" \o format_03d(i) \o "_ff1_ff1_SE_act1",
            "enc_" \o format_03d(i) \o "_sa_SE_act1",
            "enc_" \o format_03d(i) \o "_conv_SE_act1"} : i \in 1..NumEncoderBlocks}

InitBsVars ==
    /\ bs_entry = "start"
    /\ bs_calls = <<>>
    /\ bs_sd_args = {}
    /\ bs_se_block_for_module = {}
    /\ bs_network = {}
    /\ bs_exc = None

IdleBsVars ==
    /\ bs_entry = "idle"
    /\ bs_calls = <<>>
    /\ bs_sd_args = {}
    /\ bs_se_block_for_module = {}
    /\ bs_network = {}
    /\ bs_exc = None

\* A function of the script has run: its calls, locals, data and exception.
Ran(entry, calls, sd_args, se_block_for_module, network, exc) ==
    /\ bs_entry # "idle"
    /\ bs_entry' = entry
    /\ bs_calls' = calls
    /\ bs_sd_args' = sd_args
    /\ bs_se_block_for_module' = se_block_for_module
    /\ bs_network' = network
    /\ bs_exc' = exc

\* make_experiment_06_stoch_depth called with some mapping in
\* args.conformer_defaults.
MakeExperiment06StochDepth ==
    \E sd_args \in SdMaps, test_construct \in BOOLEAN :
        LET data == make_experiment_06_stoch_depth(
                        with_stochastic_depth(get_defaults_02, sd_args),
                        "stoch-depth", test_construct)
        IN Ran("make_experiment_06_stoch_depth", <<data>>, sd_args, {}, data.network, None)

\* make_experiment_07_se_block called with some list of module types.
MakeExperiment07SeBlock ==
    \E se_block_for_module \in SUBSET SeModuleTypes, test_construct \in BOOLEAN :
        LET data == make_experiment_07_se_block(get_defaults_02, "se-block",
                                                se_block_for_module, test_construct)
        IN Ran("make_experiment_07_se_block", <<data>>, {}, se_block_for_module,
               data.network, None)

\* test_sd
TestSd ==
    LET data == make_experiment_06_stoch_depth(
                    with_stochastic_depth(get_defaults_02, test_sd_args),
                    "stoch-depth-TEST", TRUE)
    IN Ran("test_sd", <<data>>, test_sd_args, {}, data.network,
           IF test_sd_asserts \subseteq data.network THEN None ELSE "AssertionError")

\* sd_ffmod(v); sd_ffmod_v2 is sd_ffmod(v=1)
SdFfmod ==
    \E v \in {0, 1} :
        Ran("sd_ffmod", <<sd_ffmod(v)>>, sd_args_all_blocks({"ff_mod1", "ff_mod2"}),
            {}, {}, None)

\* sd_attmod(v)
SdAttmod ==
    \E v \in {0, 1} :
        Ran("sd_attmod", <<sd_attmod(v)>>, sd_args_all_blocks({"self_att"}),
            {}, {}, None)

\* sd_attmod_v2: calls itself with the keyword v, which it does not take.
SdAttmodV2 ==
    Ran("sd_attmod_v2", <<>>, {}, {}, {}, "TypeError")

\* sd_conv_mod(v); sd_conv_mod_v2 is sd_conv_mod(v=1)
SdConvMod ==
    \E v \in {0, 1} :
        Ran("sd_conv_mod", <<sd_conv_mod(v)>>, sd_args_all_blocks({"conv_mod"}),
            {}, {}, None)

\* sd_ff_linear_scale: builds sd_args and returns.
SdFfLinearScale ==
    Ran("sd_ff_linear_scale", <<>>, sd_ff_linear_scale_args, {}, {}, None)

\* all_experiments_stochastic_depth: sd_ffmod(), sd_conv_mod(), sd_ff_linear_scale()
AllExperimentsStochasticDepth ==
    Ran("all_experiments_stochastic_depth", <<sd_ffmod(0), sd_conv_mod(0)>>,
        sd_ff_linear_scale_args, {}, {}, None)

\* se_test
SeTest ==
    LET data == make_experiment_07_se_block(get_defaults_02, "se-block-TEST",
                                            SeModuleTypes, TRUE)
    IN Ran("se_test", <<data>>, {}, SeModuleTypes, data.network,
           IF se_test_asserts \subseteq data.network THEN None ELSE "AssertionError")

\* se_ffmod, se_attmod, se_convmod
SeModule ==
    \E k \in SeModuleTypes :
        Ran(se_function(k), <<se_call("se-block-v1.0-" \o se_name(k), {k})>>, {}, {k}, {}, None)

\* all_experiments_se_block: se_attmod(), se_ffmod(), se_convmod()
AllExperimentsSeBlock ==
    Ran("all_experiments_se_block",
        <<se_call("se-block-v1.0-att-mod", {"att_mod"}),
          se_call("se-block-v1.0-ff-mod", {"ff_mod"}),
          se_call("se-block-v1.0-conv-mod", {"conv_mod"})>>, {}, {}, {}, None)

(***************************************************************************)
(*                            viterbi_lstm                                 *)
(*                                                                         *)
(* A dict is a function from its keys; the value of an entry names where   *)
(* it comes from.  A config is its dict without the network, and the       *)
(* network.                                                                *)
(***************************************************************************)
EmptyDict == [k \in {} |-> "none"]

\* {**a, **b}
dict_merge(a, b) ==
    [k \in DOMAIN a \cup DOMAIN b |-> IF k \in DOMAIN b THEN b[k] ELSE a[k]]

\* The dict d without the keys ks.
dict_without(d, ks) == [k \in DOMAIN d \ ks |-> d[k]]

\* ChainMap(a, b, c)[k]
chain_map_get(a, b, c, k) ==
    IF k \in DOMAIN a THEN a[k] ELSE IF k \in DOMAIN b THEN b[k] ELSE c[k]

\* The constants of .constants.
BASE_CRNN_CONFIG ==
    [k \in {"lr", "batch_size", "learning_rates", "dropout", "l2"} |-> "BASE_CRNN_CONFIG"]
BASE_VITERBI_LRS == [k \in {"lr", "learning_rates"} |-> "BASE_VITERBI_LRS"]
BASE_LSTM_CONFIG == [k \in {"layers", "dropout"} |-> "BASE_LSTM_CONFIG"]
BASE_NETWORK_CONFIG == [k \in {"layers", "dropout", "l2"} |-> "BASE_NETWORK_CONFIG"]

\* The output layers blstm_network may build: its loss and loss_opts.
NoLossOpts == [k \in {} |-> 0]
OutputLayers ==
    {[loss |-> "ce", loss_opts |-> NoLossOpts],
     [loss |-> "ce", loss_opts |-> [k \in {"focal_loss_factor"} |-> 10]],
     [loss |-> "sprint", loss_opts |-> [k \in {"sprint_opts"} |-> 0]]}

\* The dicts a caller may give over the keys ks.
CallerDicts(ks) == UNION {[s -> {"caller"}] : s \in SUBSET ks}

LstmArgs ==
    [kwargs : CallerDicts({"lr", "batch_size", "max_seq_length", "network"}),
     network_kwargs : CallerDicts({"layers", "dropout", "l2"}),
     output : OutputLayers]

NoLstmConfig ==
    [config |-> EmptyDict,
     network |-> [args |-> EmptyDict, output |-> [loss |-> None, loss_opts |-> NoLossOpts]]]

\* blstm_network(**network_kwargs): the arguments it reads and its output layer.
blstm_network(a, b, c, output) ==
    [args |-> [k \in {"layers", "dropout", "l2"} |-> chain_map_get(a, b, c, k)],
     output |-> output]

\* blstm_config(num_input, network, learning_rate, **kwargs): the base config
\* with its max_seq_length, updated with the arguments.
blstm_config(network, learning_rate, kwargs) ==
    [config |-> dict_merge([k \in {"max_seq_length", "learning_rate"} |->
                               IF k = "learning_rate" THEN learning_rate
                               ELSE "blstm_config"],
                           kwargs),
     network |-> network]

\* A lookup order in which the base configs hide the caller's values.
viterbi_kwargs_base_first(kwargs) ==
    dict_merge(dict_merge(kwargs, BASE_CRNN_CONFIG), BASE_VITERBI_LRS)

\* Line 17: {**BASE_CRNN_CONFIG, **BASE_VITERBI_LRS, **kwargs}
viterbi_kwargs(kwargs) ==
    dict_merge(dict_merge(BASE_CRNN_CONFIG, BASE_VITERBI_LRS), kwargs)

\* Lines 21-27: a keyword given both by name and in **kwargs is a TypeError.
duplicate_keyword(kwargs) == DOMAIN kwargs \cap {"network", "learning_rate"} # {}

\* Lines 28-31: the max_seq_length is deleted, the output layer gets the
\* focal loss factor 2.0 (in tenths) and the loss "ce".
focal_loss(config) ==
    [config |-> dict_without(config.config, {"max_seq_length"}),
     network |-> [config.network EXCEPT
                    !.output.loss_opts = [k \in {"focal_loss_factor"} |-> 20],
                    !.output.loss = "ce"]]

\* viterbi_lstm: exc is the exception it raises, None if it returns config.
viterbi_lstm(args) ==
    LET kwargs == viterbi_kwargs(args.kwargs)
        rest == dict_without(kwargs, {"lr"})
        network == blstm_network(args.network_kwargs, BASE_LSTM_CONFIG,
                                 BASE_NETWORK_CONFIG, args.output)
    IN IF "lr" \notin DOMAIN kwargs THEN [exc |-> "KeyError", config |-> NoLstmConfig]
       ELSE IF duplicate_keyword(rest) THEN [exc |-> "TypeError", config |-> NoLstmConfig]
       ELSE [exc |-> None,
             config |-> focal_loss(blstm_config(network, kwargs["lr"], rest))]

InitLstmVars ==
    /\ lstm_args \in LstmArgs
    /\ lstm_pc = "start"
    /\ lstm_config = NoLstmConfig

IdleLstmVars ==
    /\ lstm_args = [kwargs |-> EmptyDict, network_kwargs |-> EmptyDict,
                    output |-> [loss |-> "ce", loss_opts |-> NoLossOpts]]
    /\ lstm_pc = "idle"
    /\ lstm_config = NoLstmConfig

\* viterbi_lstm(num_input, network_kwargs, **kwargs)
ViterbiLstm ==
    /\ lstm_pc = "start"
    /\ LET r == viterbi_lstm(lstm_args)
       IN /\ lstm_pc' = IF r.exc = None THEN "done" ELSE r.exc
          /\ lstm_config' = r.config
    /\ UNCHANGED lstm_args

(***************************************************************************)
(*                  FactoredHybridSystem.run_input_step                    *)
(*                                                                         *)
(* A corpus key is the sequence of its parts, as in the transition model   *)
(* part above, so that "train" in corpus_key is computed.                  *)
(***************************************************************************)
MaxInputSteps == 3
MaxMappingLen == 2

NoTrainKey == <<>>

\* self.train_corpora + self.dev_corpora + self.test_corpora
RegisteredCorpora ==
    {<<"train", "-other-960">>, <<"train", "-clean-100">>, <<"dev", "-other">>}

\* The keys of step_args.corpus_type_mapping, one of them not registered.
MappingKeys == RegisteredCorpora \cup {<<"test", "-other">>}

\* The corpus_type_mapping dicts: their keys in order, no key twice.
CorpusTypeMappings ==
    {m \in UNION {[1..n -> MappingKeys] : n \in 0..MaxMappingLen} :
        \A i, j \in DOMAIN m : i # j => m[i] # m[j]}

StepNames == {"init", "extract"}

\* bool(t) for a tuple t: a tuple is true unless it is empty.
tuple_is_true(t) == Len(t) > 0

\* Lines 460-463: the operand of the assert statement is the tuple
\* (False, "You already set the train key ...").
more_than_one_train_key_assert == tuple_is_true(<<"False", "You already set the train key">>)

\* Lines 455-463 for one corpus key: the train key afterwards, and whether
\* the assertion failed.
set_train_key(train_key, corpus_key) ==
    IF ~contains_train(corpus_key) THEN [train_key |-> train_key, failed |-> FALSE]
    ELSE IF train_key = NoTrainKey THEN [train_key |-> corpus_key, failed |-> FALSE]
    ELSE IF train_key # corpus_key
    THEN [train_key |-> train_key, failed |-> ~more_than_one_train_key_assert]
    ELSE [train_key |-> train_key, failed |-> FALSE]

\* run_input_step: the loop over the items of the mapping from item i on.
RECURSIVE run_input_step(_, _, _, _)
run_input_step(S, mapping, name, i) ==
    IF i > Len(mapping) THEN S
    ELSE IF mapping[i] \notin RegisteredCorpora THEN run_input_step(S, mapping, name, i + 1)
    ELSE LET t == set_train_key(S.train_key, mapping[i])
         IN IF t.failed THEN [S EXCEPT !.exc = "AssertionError"]
            ELSE run_input_step([S EXCEPT !.train_key = t.train_key,
                                          !.inputs = @ \cup {<<mapping[i], name>>}],
                                mapping, name, i + 1)

InitRisVars ==
    /\ ris_train_key = NoTrainKey
    /\ ris_inputs = {}
    /\ ris_last = [mapping |-> <<>>, name |-> "none", exc |-> None,
                   train_key_before |-> NoTrainKey, inputs_before |-> {}]
    /\ ris_steps = 0

IdleRisVars ==
    /\ ris_train_key = NoTrainKey
    /\ ris_inputs = {}
    /\ ris_last = [mapping |-> <<>>, name |-> "idle", exc |-> None,
                   train_key_before |-> NoTrainKey, inputs_before |-> {}]
    /\ ris_steps = 0

\* run_input_step(step_args)
RunInputStep ==
    /\ ris_last.name # "idle"
    /\ ris_steps < MaxInputSteps
    /\ \E mapping \in CorpusTypeMappings, name \in StepNames :
         LET R == run_input_step([train_key |-> ris_train_key, inputs |-> ris_inputs,
                                  exc |-> None], mapping, name, 1)
         IN /\ ris_train_key' = R.train_key
            /\ ris_inputs' = R.inputs
            /\ ris_last' = [mapping |-> mapping, name |-> name, exc |-> R.exc,
                            train_key_before |-> ris_train_key,
                            inputs_before |-> ris_inputs]
    /\ ris_steps' = ris_steps + 1

(***************************************************************************)
(*                           Specifications                                *)
(***************************************************************************)
InitCkpt == InitCkptVars /\ IdleAtsVars /\ IdleFhVars /\ IdleInitVars /\ IdleTdpVars /\ IdlePrepVars /\ IdleConfVars /\ IdleBsVars /\ IdleLstmVars /\ IdleRisVars
NextCkpt ==
    \/ FromTrainingJob /\ UNCHANGED <<ats_vars, fh_vars, init_vars, tdp_vars, prep_vars, conf_vars, bs_vars, lstm_vars, ris_vars>>
    \/ DefaultReturnnKeepEpochs /\ UNCHANGED <<ats_vars, fh_vars, init_vars, tdp_vars, prep_vars, conf_vars, bs_vars, lstm_vars, ris_vars>>
    \/ LastFixedEpochIdx /\ UNCHANGED <<ats_vars, fh_vars, init_vars, tdp_vars, prep_vars, conf_vars, bs_vars, lstm_vars, ris_vars>>
    \/ GetEpoch /\ UNCHANGED <<ats_vars, fh_vars, init_vars, tdp_vars, prep_vars, conf_vars, bs_vars, lstm_vars, ris_vars>>
    \/ GetLastFixedEpoch /\ UNCHANGED <<ats_vars, fh_vars, init_vars, tdp_vars, prep_vars, conf_vars, bs_vars, lstm_vars, ris_vars>>
SpecCkpt == InitCkpt /\ [][NextCkpt]_vars

InitATS == IdleCkptVars /\ InitAtsVars /\ IdleFhVars /\ IdleInitVars /\ IdleTdpVars /\ IdlePrepVars /\ IdleConfVars /\ IdleBsVars /\ IdleLstmVars /\ IdleRisVars
NextATS ==
    \/ AtsStart /\ UNCHANGED <<ckpt_vars, fh_vars, init_vars, tdp_vars, prep_vars, conf_vars, bs_vars, lstm_vars, ris_vars>>
    \/ AtsGridPoint /\ UNCHANGED <<ckpt_vars, fh_vars, init_vars, tdp_vars, prep_vars, conf_vars, bs_vars, lstm_vars, ris_vars>>
    \/ AtsReturn /\ UNCHANGED <<ckpt_vars, fh_vars, init_vars, tdp_vars, prep_vars, conf_vars, bs_vars, lstm_vars, ris_vars>>
SpecATS == InitATS /\ [][NextATS]_vars

InitFH == IdleCkptVars /\ IdleAtsVars /\ InitFhVars /\ IdleInitVars /\ IdleTdpVars /\ IdlePrepVars /\ IdleConfVars /\ IdleBsVars /\ IdleLstmVars /\ IdleRisVars
NextFH ==
    \/ SetExperimentDict /\ UNCHANGED <<ckpt_vars, ats_vars, init_vars, tdp_vars, prep_vars, conf_vars, bs_vars, lstm_vars, ris_vars>>
    \/ SetReturnnConfigForExperiment /\ UNCHANGED <<ckpt_vars, ats_vars, init_vars, tdp_vars, prep_vars, conf_vars, bs_vars, lstm_vars, ris_vars>>
    \/ ReturnnTraining /\ UNCHANGED <<ckpt_vars, ats_vars, init_vars, tdp_vars, prep_vars, conf_vars, bs_vars, lstm_vars, ris_vars>>
    \/ ReturnnTrainingFromHdf /\ UNCHANGED <<ckpt_vars, ats_vars, init_vars, tdp_vars, prep_vars, conf_vars, bs_vars, lstm_vars, ris_vars>>
    \/ ReturnnRasrTraining /\ UNCHANGED <<ckpt_vars, ats_vars, init_vars, tdp_vars, prep_vars, conf_vars, bs_vars, lstm_vars, ris_vars>>
    \/ SetGraphForExperiment /\ UNCHANGED <<ckpt_vars, ats_vars, init_vars, tdp_vars, prep_vars, conf_vars, bs_vars, lstm_vars, ris_vars>>
    \/ SetMonoPriorsReturnnRasr /\ UNCHANGED <<ckpt_vars, ats_vars, init_vars, tdp_vars, prep_vars, conf_vars, bs_vars, lstm_vars, ris_vars>>
    \/ SetDiphonePriorsReturnnRasr /\ UNCHANGED <<ckpt_vars, ats_vars, init_vars, tdp_vars, prep_vars, conf_vars, bs_vars, lstm_vars, ris_vars>>
    \/ SetTriphonePriorsReturnnRasr /\ UNCHANGED <<ckpt_vars, ats_vars, init_vars, tdp_vars, prep_vars, conf_vars, bs_vars, lstm_vars, ris_vars>>
    \/ GetRecognizerAndArgs /\ UNCHANGED <<ckpt_vars, ats_vars, init_vars, tdp_vars, prep_vars, conf_vars, bs_vars, lstm_vars, ris_vars>>
    \/ GetCartParams /\ UNCHANGED <<ckpt_vars, ats_vars, init_vars, tdp_vars, prep_vars, conf_vars, bs_vars, lstm_vars, ris_vars>>
    \/ RecognizeCart /\ UNCHANGED <<ckpt_vars, ats_vars, init_vars, tdp_vars, prep_vars, conf_vars, bs_vars, lstm_vars, ris_vars>>
SpecFH == InitFH /\ [][NextFH]_vars

InitInitSystem == IdleCkptVars /\ IdleAtsVars /\ IdleFhVars /\ InitInitVars /\ IdleTdpVars /\ IdlePrepVars /\ IdleConfVars /\ IdleBsVars /\ IdleLstmVars /\ IdleRisVars
NextInitSystem ==
    \/ InitSystemAssertParams /\ UNCHANGED <<ckpt_vars, ats_vars, fh_vars, tdp_vars, prep_vars, conf_vars, bs_vars, lstm_vars, ris_vars>>
    \/ InitAm /\ UNCHANGED <<ckpt_vars, ats_vars, fh_vars, tdp_vars, prep_vars, conf_vars, bs_vars, lstm_vars, ris_vars>>
    \/ AssertCorpusNameUnique /\ UNCHANGED <<ckpt_vars, ats_vars, fh_vars, tdp_vars, prep_vars, conf_vars, bs_vars, lstm_vars, ris_vars>>
    \/ AddCorpus /\ UNCHANGED <<ckpt_vars, ats_vars, fh_vars, tdp_vars, prep_vars, conf_vars, bs_vars, lstm_vars, ris_vars>>
    \/ InitSystemReturn /\ UNCHANGED <<ckpt_vars, ats_vars, fh_vars, tdp_vars, prep_vars, conf_vars, bs_vars, lstm_vars, ris_vars>>
    \/ InitDatasets /\ UNCHANGED <<ckpt_vars, ats_vars, experiments, cfg_heap, fh_last, tdp_vars, prep_vars, conf_vars, bs_vars, lstm_vars, ris_vars>>
SpecInitSystem == InitInitSystem /\ [][NextInitSystem]_vars

InitUpdateAm == IdleCkptVars /\ IdleAtsVars /\ IdleFhVars /\ IdleInitVars /\ InitTdpVars /\ IdlePrepVars /\ IdleConfVars /\ IdleBsVars /\ IdleLstmVars /\ IdleRisVars
NextUpdateAm ==
    \/ ResolveTdpTypes /\ UNCHANGED <<ckpt_vars, ats_vars, fh_vars, init_vars, prep_vars, conf_vars, bs_vars, lstm_vars, ris_vars>>
    \/ UpdateCrpAmSetting /\ UNCHANGED <<ckpt_vars, ats_vars, fh_vars, init_vars, prep_vars, conf_vars, bs_vars, lstm_vars, ris_vars>>
    \/ UpdateAmSettingReturn /\ UNCHANGED <<ckpt_vars, ats_vars, fh_vars, init_vars, prep_vars, conf_vars, bs_vars, lstm_vars, ris_vars>>
SpecUpdateAm == InitUpdateAm /\ [][NextUpdateAm]_vars

InitPrepare == IdleCkptVars /\ IdleAtsVars /\ IdleFhVars /\ IdleInitVars /\ IdleTdpVars /\ IdleConfVars /\ IdleBsVars /\ IdleLstmVars /\ IdleRisVars
                 /\ InitPrepVars
NextPrepare ==
    \/ PrepareTrainDataWithCvFromTrain
         /\ UNCHANGED <<ckpt_vars, ats_vars, fh_vars, init_vars, tdp_vars, conf_vars, bs_vars, lstm_vars, ris_vars>>
    \/ PrepareTrainDataWithSeparateCv
         /\ UNCHANGED <<ckpt_vars, ats_vars, fh_vars, init_vars, tdp_vars, conf_vars, bs_vars, lstm_vars, ris_vars>>
SpecPrepare == InitPrepare /\ [][NextPrepare]_vars

InitConformer == IdleCkptVars /\ IdleAtsVars /\ IdleFhVars /\ IdleInitVars /\ IdleTdpVars /\ IdleBsVars /\ IdleLstmVars /\ IdleRisVars
                   /\ IdlePrepVars /\ InitConfVars
NextConformer ==
    \/ ConformerEncoderInit
         /\ UNCHANGED <<ckpt_vars, ats_vars, fh_vars, init_vars, tdp_vars, prep_vars, bs_vars, lstm_vars, ris_vars>>
    \/ CreateNetwork
         /\ UNCHANGED <<ckpt_vars, ats_vars, fh_vars, init_vars, tdp_vars, prep_vars, bs_vars, lstm_vars, ris_vars>>
    \/ CreateConformerBlock
         /\ UNCHANGED <<ckpt_vars, ats_vars, fh_vars, init_vars, tdp_vars, prep_vars, bs_vars, lstm_vars, ris_vars>>
    \/ CreateNetworkReturn
         /\ UNCHANGED <<ckpt_vars, ats_vars, fh_vars, init_vars, tdp_vars, prep_vars, bs_vars, lstm_vars, ris_vars>>
SpecConformer == InitConformer /\ [][NextConformer]_vars

InitBigShort == IdleCkptVars /\ IdleAtsVars /\ IdleFhVars /\ IdleInitVars /\ IdleTdpVars /\ IdleLstmVars /\ IdleRisVars
                  /\ IdlePrepVars /\ IdleConfVars /\ InitBsVars
NextBigShort ==
    \/ MakeExperiment06StochDepth
         /\ UNCHANGED <<ckpt_vars, ats_vars, fh_vars, init_vars, tdp_vars, prep_vars, conf_vars, lstm_vars, ris_vars>>
    \/ MakeExperiment07SeBlock
         /\ UNCHANGED <<ckpt_vars, ats_vars, fh_vars, init_vars, tdp_vars, prep_vars, conf_vars, lstm_vars, ris_vars>>
    \/ TestSd
         /\ UNCHANGED <<ckpt_vars, ats_vars, fh_vars, init_vars, tdp_vars, prep_vars, conf_vars, lstm_vars, ris_vars>>
    \/ SdFfmod
         /\ UNCHANGED <<ckpt_vars, ats_vars, fh_vars, init_vars, tdp_vars, prep_vars, conf_vars, lstm_vars, ris_vars>>
    \/ SdAttmod
         /\ UNCHANGED <<ckpt_vars, ats_vars, fh_vars, init_vars, tdp_vars, prep_vars, conf_vars, lstm_vars, ris_vars>>
    \/ SdAttmodV2
         /\ UNCHANGED <<ckpt_vars, ats_vars, fh_vars, init_vars, tdp_vars, prep_vars, conf_vars, lstm_vars, ris_vars>>
    \/ SdConvMod
         /\ UNCHANGED <<ckpt_vars, ats_vars, fh_vars, init_vars, tdp_vars, prep_vars, conf_vars, lstm_vars, ris_vars>>
    \/ SdFfLinearScale
         /\ UNCHANGED <<ckpt_vars, ats_vars, fh_vars, init_vars, tdp_vars, prep_vars, conf_vars, lstm_vars, ris_vars>>
    \/ AllExperimentsStochasticDepth
         /\ UNCHANGED <<ckpt_vars, ats_vars, fh_vars, init_vars, tdp_vars, prep_vars, conf_vars, lstm_vars, ris_vars>>
    \/ SeTest
         /\ UNCHANGED <<ckpt_vars, ats_vars, fh_vars, init_vars, tdp_vars, prep_vars, conf_vars, lstm_vars, ris_vars>>
    \/ SeModule
         /\ UNCHANGED <<ckpt_vars, ats_vars, fh_vars, init_vars, tdp_vars, prep_vars, conf_vars, lstm_vars, ris_vars>>
    \/ AllExperimentsSeBlock
         /\ UNCHANGED <<ckpt_vars, ats_vars, fh_vars, init_vars, tdp_vars, prep_vars, conf_vars, lstm_vars, ris_vars>>
SpecBigShort == InitBigShort /\ [][NextBigShort]_vars

InitViterbiLstm == IdleCkptVars /\ IdleAtsVars /\ IdleFhVars /\ IdleInitVars /\ IdleTdpVars /\ IdleRisVars
                     /\ IdlePrepVars /\ IdleConfVars /\ IdleBsVars /\ InitLstmVars
NextViterbiLstm ==
    \/ ViterbiLstm
         /\ UNCHANGED <<ckpt_vars, ats_vars, fh_vars, init_vars, tdp_vars, prep_vars, conf_vars, bs_vars, ris_vars>>
SpecViterbiLstm == InitViterbiLstm /\ [][NextViterbiLstm]_vars

InitRunInputStep == IdleCkptVars /\ IdleAtsVars /\ IdleFhVars /\ IdleInitVars /\ IdleTdpVars
                      /\ IdlePrepVars /\ IdleConfVars /\ IdleBsVars /\ IdleLstmVars /\ InitRisVars
NextRunInputStep ==
    \/ RunInputStep
         /\ UNCHANGED <<ckpt_vars, ats_vars, fh_vars, init_vars, tdp_vars, prep_vars, conf_vars, bs_vars, lstm_vars>>
SpecRunInputStep == InitRunInputStep /\ [][NextRunInputStep]_vars

(***************************************************************************)
(*                               Claims                                    *)
(***************************************************************************)

HasTrainJob(e) == e.train_job.kind # None
HasGraph(e) == e.graph_inference.kind # None
HasPriors(e) == e.priors.kind # None
HasConfig(e) == e.returnn_config # NoRef

\* C1 (as stated): the lifecycle states are entered in order: an inference
\* graph is set only after a train job was attached, a train job is attached
\* only to a declared and configured experiment, priors only after the graph.
C1_StrictLifecycleOrder ==
    \A k \in Keys :
        LET e == experiments[k]
        IN /\ HasConfig(e) => e.declared
           /\ HasTrainJob(e) => e.declared /\ HasConfig(e)
           /\ HasGraph(e) => HasTrainJob(e)
           /\ HasPriors(e) => HasGraph(e)

\* C1 (amended): a train job, an inference graph and priors exist only for a
\* declared experiment; priors exist only together with a stored training
\* configuration, a train job and an inference graph; a set_graph call that
\* registered the graph output worked on a declared experiment; and
\* get_recognizer_and_args succeeds only with graph, priors and train job.
C1_PartialLifecycleOrder ==
    \A k \in Keys :
        LET e == experiments[k]
        IN /\ (HasConfig(e) \/ HasTrainJob(e) \/ HasGraph(e) \/ HasPriors(e)) => e.declared
           /\ HasPriors(e) => HasConfig(e) /\ HasTrainJob(e) /\ HasGraph(e)
           /\ (fh_last.key = k /\ fh_last.op = "set_graph_for_experiment"
                 /\ fh_last.exc = None)
                => /\ HasGraph(e)
                   /\ fh_last.outputs = << <<"graphs/">> \o e.name \o <<"-infer.pb">> >>
           /\ (fh_last.key = k /\ fh_last.op = "get_recognizer_and_args"
                 /\ fh_last.exc = None)
                => HasGraph(e) /\ HasPriors(e) /\ HasTrainJob(e)

\* C1 witness: an experiment that went through the whole lifecycle, and whose
\* last call returned a recognizer.
C1_Witness ==
    \E k \in Keys :
        /\ HasConfig(experiments[k]) /\ HasTrainJob(experiments[k])
        /\ HasGraph(experiments[k]) /\ HasPriors(experiments[k])
        /\ fh_last.op = "get_recognizer_and_args" /\ fh_last.exc = None

RecognitionOps == {"get_recognizer_and_args", "get_cart_params", "recognize_cart"}

\* C2: on a declared experiment get_recognizer_and_args raises 'set graph
\* first' when there is no inference graph and otherwise 'set priors first'
\* when there are no priors; get_cart_params and recognize_cart raise 'set
\* priors first' when there are no priors; and a call that raised one of the
\* two assertions created no job, returned nothing and left the experiment
\* records and self.crp as they were.
C2_RecognitionPrerequisites ==
    [][\A k \in Keys :
         (fh_last'.key = k /\ fh_last'.op \in RecognitionOps /\ experiments[k].declared)
            => /\ (fh_last'.op = "get_recognizer_and_args" /\ ~HasGraph(experiments[k]))
                    => fh_last'.exc = "AssertionError: set graph first"
               /\ ((fh_last'.op = "get_recognizer_and_args" => HasGraph(experiments[k]))
                     /\ ~HasPriors(experiments[k]))
                    => fh_last'.exc = "AssertionError: set priors first"
               /\ fh_last'.exc \in {"AssertionError: set graph first",
                                    "AssertionError: set priors first"}
                    => /\ fh_last'.jobs = <<>>
                       /\ fh_last'.ret = <<>>
                       /\ experiments' = experiments
                       /\ crp' = crp
                       /\ (fh_last'.exc = "AssertionError: set graph first"
                             => ~HasGraph(experiments[k]))
                       /\ (fh_last'.exc = "AssertionError: set priors first"
                             => ~HasPriors(experiments[k]))
      ]_vars

\* C2 witness: get_recognizer_and_args failed with 'set priors first' on an
\* experiment that has its graph but no priors.
C2_Witness ==
    \E k \in Keys :
        /\ fh_last.key = k
        /\ fh_last.op = "get_recognizer_and_args"
        /\ fh_last.exc = "AssertionError: set priors first"
        /\ HasGraph(experiments[k]) /\ ~HasPriors(experiments[k])

Filled(s) == s \notin {"", None}

\* C3 (as stated): no call removes a record or resets a filled field
\* (training configuration, prolog/epilog, train job, graph, priors).
C3_NeverReset ==
    [][\A k \in Keys :
         LET e == experiments[k]
             f == experiments'[k]
         IN /\ e.declared => f.declared
            /\ HasConfig(e) => HasConfig(f)
            /\ Filled(e.prolog) => Filled(f.prolog)
            /\ Filled(e.epilog) => Filled(f.epilog)
            /\ HasTrainJob(e) => HasTrainJob(f)
            /\ HasGraph(e) => HasGraph(f)
            /\ HasPriors(e) => HasPriors(f)
      ]_vars

\* C3 (amended): no call removes a record; a call other than
\* set_experiment_dict never empties a filled training configuration, train
\* job, inference graph or priors; set_experiment_dict leaves a fresh record;
\* and prolog/epilog are those of the training configuration attached last.
C3_ResetOnlyByRedeclaration ==
    [][\A k \in Keys :
         LET e == experiments[k]
             f == experiments'[k]
         IN /\ e.declared => f.declared
            /\ fh_last'.op # "set_experiment_dict"
                 => /\ HasConfig(e) => HasConfig(f)
                    /\ HasTrainJob(e) => HasTrainJob(f)
                    /\ HasGraph(e) => HasGraph(f)
                    /\ HasPriors(e) => HasPriors(f)
            /\ (fh_last'.op = "set_experiment_dict" /\ fh_last'.key = k)
                 => ~HasConfig(f) /\ ~HasTrainJob(f) /\ ~HasGraph(f) /\ ~HasPriors(f)
                    /\ f.prolog = "" /\ f.epilog = ""
            /\ HasConfig(f)
                 => /\ f.prolog = cfg_heap'[f.returnn_config].python_prolog
                    /\ f.epilog = cfg_heap'[f.returnn_config].python_epilog
      ]_vars

\* C3 witness: a new training configuration without prolog was attached to an
\* experiment that has its train job, graph and priors, the graph still
\* carrying the prolog of the configuration attached before.
C3_Witness ==
    \E k \in Keys :
        /\ fh_last.op = "set_returnn_config_for_experiment" /\ fh_last.key = k
        /\ fh_last.exc = None
        /\ HasConfig(experiments[k]) /\ HasTrainJob(experiments[k])
        /\ HasGraph(experiments[k]) /\ HasPriors(experiments[k])
        /\ experiments[k].graph_inference.python_prolog = "prolog"
        /\ experiments[k].prolog = None

SearchJobs == SelectSeq(ats_jobs, LAMBDA j : j.kind = "AdvancedTreeSearchJob")

\* C4: the CRP stored in recog_corpus.corpus_info.crp has, during and after
\* the call, the value it had before the call.
C4_StoredCrpUnchanged == ats_heap[StoredCrp] = StoredCrpValue

\* C4 witness: a finished call over at least two grid points, none with the
\* stored CRP's LM scale.
C4_Witness ==
    /\ ats_pc = "done"
    /\ Len(ats_results) >= 2
    /\ \A i \in DOMAIN ats_results : ats_results[i].lm # StoredCrpValue.lm_scale

\* C5: after the call, the CRP object handed to each grid point's search job
\* and lattice scoring carries that grid point's LM scale, and no two grid
\* points share a CRP object.
C5_OwnCrpPerGridPoint ==
    ats_pc = "done" =>
        /\ \A i \in DOMAIN SearchJobs :
              ats_heap[SearchJobs[i].crp].lm_scale = SearchJobs[i].lm_scale
        /\ \A i \in DOMAIN ats_outputs :
              ats_heap[ats_outputs[i].crp].lm_scale = ats_results[i].lm
        /\ \A i, j \in DOMAIN SearchJobs :
              i # j => SearchJobs[i].crp # SearchJobs[j].crp

\* C6: no call changes a ReturnnConfig object the script created (so a stored
\* returnn_config keeps its "source" layer and "from" references and gains no
\* forward_output_layer and no HDF datasets), self.crp keeps its state tying,
\* and the train data input's CRP keeps its segment path.
C6_BaseObjectsUntouched ==
    /\ cfg_heap = InitCfgHeap
    /\ \A k \in Keys :
          HasConfig(experiments[k]) =>
              LET c == cfg_heap[experiments[k].returnn_config]
              IN /\ c.network = InitCfgHeap[experiments[k].returnn_config].network
                 /\ c.forward_output_layer = None
                 /\ c.train = None /\ c.dev = None
    /\ crp = InitCrp
    /\ train_input_data.crp.segment_path = "train.segments"

\* C6 witness: mono priors were estimated on a share of the data for an
\* experiment whose stored config has the "source" layer, whose train job
\* came from HDF training and whose graph was compiled.
C6_Witness ==
    \E k \in Keys :
        /\ fh_last.op = "set_mono_priors_returnn_rasr" /\ fh_last.exc = None
        /\ \E i \in DOMAIN fh_last.jobs : fh_last.jobs[i] = "ShuffleAndSplitSegmentsJob"
        /\ HasConfig(experiments[k])
        /\ "source" \in DOMAIN cfg_heap[experiments[k].returnn_config].network
        /\ experiments[k].train_job.returnn_config.train = "NextGenHDFDataset"
        /\ "source" \notin DOMAIN experiments[k].graph_inference.config.network
        /\ HasPriors(experiments[k])

\* The stored epochs in closed form.
StoredEpochsOf(num_epochs, save_interval) ==
    {save_interval * k : k \in {j \in 1..num_epochs : save_interval * j < num_epochs}}
        \cup {num_epochs}

RECURSIVE IsPowerOfTwo(_)
IsPowerOfTwo(q) == q = 1 \/ (q > 1 /\ q % 2 = 0 /\ IsPowerOfTwo(q \div 2))

\* The default keep epochs in closed form: multiples of E and doubles of D.
DefaultKeepOf(num_epochs) ==
    LET E == IF num_epochs <= 10 THEN 4 ELSE IF num_epochs <= 50 THEN 20
             ELSE IF num_epochs <= 100 THEN 40 ELSE 80
        D == IF num_epochs <= 10 THEN 5 ELSE IF num_epochs <= 50 THEN 5
             ELSE IF num_epochs <= 100 THEN 10 ELSE 20
    IN {m \in 1..num_epochs : m % E = 0}
       \cup {m \in 1..num_epochs : m % D = 0 /\ IsPowerOfTwo(m \div D)}

ExplicitKeep == post_config.cleanup_old_models.kind = "dict"
                /\ post_config.cleanup_old_models.has_keep

\* C7: without an explicit keep list, fixed_epochs is the stored epochs
\* intersected with {num_epochs} and the default keep epochs, and contains
\* num_epochs.
C7_DefaultFixedEpochs ==
    (mwc.built /\ ~ExplicitKeep) =>
        /\ mwc.fixed_epochs =
              StoredEpochsOf(post_config.num_epochs, post_config.save_interval)
              \cap ({post_config.num_epochs} \cup DefaultKeepOf(post_config.num_epochs))
        /\ post_config.num_epochs \in mwc.fixed_epochs

\* C7 witness: 100 epochs saved every 10 give {10, 20, 40, 80, 100}.
C7_Witness ==
    /\ mwc.built /\ ~ExplicitKeep
    /\ post_config.num_epochs = 100 /\ post_config.save_interval = 10
    /\ mwc.fixed_epochs = {10, 20, 40, 80, 100}

\* C8 (as stated): with an explicit keep list K, fixed_epochs is exactly the
\* stored epochs intersected with K.
C8_StoredCapKeep ==
    (mwc.built /\ ExplicitKeep) =>
        mwc.fixed_epochs =
            StoredEpochsOf(post_config.num_epochs, post_config.save_interval)
            \cap post_config.cleanup_old_models.keep

\* C8 (amended): with an explicit keep list K, fixed_epochs is the stored
\* epochs intersected with K and the last epoch: (stored /\ K) plus num_epochs.
C8_StoredCapKeepAndLast ==
    (mwc.built /\ ExplicitKeep) =>
        mwc.fixed_epochs =
            StoredEpochsOf(post_config.num_epochs, post_config.save_interval)
            \cap (post_config.cleanup_old_models.keep \cup {post_config.num_epochs})

\* C8 witness: a keep list without the last epoch that keeps a stored epoch.
C8_Witness ==
    /\ mwc.built /\ ExplicitKeep
    /\ post_config.num_epochs = 6 /\ post_config.save_interval = 2
    /\ post_config.cleanup_old_models.keep = {2, 3}
    /\ mwc.fixed_epochs = {2, 6}

\* C9: default_returnn_keep_epochs(num_epochs) is the multiples of E up to
\* num_epochs and the doubles of D up to num_epochs, with (E, D) chosen by
\* num_epochs, and its two loops end after at most num_epochs + 2 tests.
C9_DefaultKeepEpochs ==
    ckpt_ret.op = "default_returnn_keep_epochs" =>
        /\ ckpt_ret.epochs = DefaultKeepOf(ckpt_ret.arg)
        /\ ckpt_ret.iters <= ckpt_ret.arg + 2

\* C9 witness: the call for 500 epochs.
C9_Witness ==
    /\ ckpt_ret.op = "default_returnn_keep_epochs"
    /\ ckpt_ret.arg = 500
    /\ ckpt_ret.epochs = {80, 160, 240, 320, 400, 480} \cup {20, 40, 80, 160, 320}

\* C10: the call returns one record per element of lm_scales x prior_scales x
\* pronunciation_scales x epochs, LM scale outermost and epoch innermost, each
\* with its grid point's scales and the given names, and creates one search
\* job and one '.reports' output per record.
C10_GridRecords ==
    LET P == Len(ats_args.prior_scales)
        R == Len(ats_args.pronunciation_scales)
        E == Len(ats_args.epochs)
    IN /\ ats_pc = "done" => Len(ats_results) = Len(ats_args.lm_scales) * P * R * E
       /\ Len(SearchJobs) = Len(ats_results)
       /\ Len(ats_outputs) = Len(ats_results)
       /\ \A k \in DOMAIN ats_results :
             LET r == ats_results[k]
                 lm == ats_args.lm_scales[((k - 1) \div (E * R * P)) + 1]
                 prior == ats_args.prior_scales[(((k - 1) \div (E * R)) % P) + 1]
                 pron == ats_args.pronunciation_scales[(((k - 1) \div E) % R) + 1]
                 epoch == ats_args.epochs[((k - 1) % E) + 1]
             IN /\ r.lm = lm /\ r.prior = prior /\ r.pron = pron /\ r.epoch = epoch
                /\ r.train_name = ats_args.train_name
                /\ r.recog_name = ats_args.recog_name
                /\ r.corpus = ats_args.corpus_name
                /\ SearchJobs[k].lm_scale = lm
                /\ SearchJobs[k].prior_scale = prior
                /\ SearchJobs[k].pronunciation_scale = pron
                /\ SearchJobs[k].epoch = epoch
                /\ ats_outputs[k].name =
                      Append(recog_path(ats_args, lm, prior, pron, epoch), ".reports")

\* C10 witness: 2 x 2 x 2 x 3 gives 24 records; the two values of every axis
\* differ, so the position of each axis shows in the records: the
\* pronunciation scale changes after 3 records, the prior scale after 6, the
\* LM scale after 12.
C10_Witness ==
    /\ ats_pc = "done"
    /\ ats_args.lm_scales = <<500, 504>>
    /\ ats_args.prior_scales = <<0, 300>>
    /\ ats_args.pronunciation_scales = <<0, 1000>>
    /\ ats_args.epochs = <<1, 2, 3>>
    /\ Len(ats_results) = 24
    /\ ats_results[3].pron = 0 /\ ats_results[4].pron = 1000
    /\ ats_results[4].prior = 0 /\ ats_results[7].prior = 300
    /\ ats_results[12].lm = 500 /\ ats_results[13].lm = 504
    /\ ats_results[1].epoch = 1 /\ ats_results[2].epoch = 2

Count(seq, x) == Cardinality({i \in DOMAIN seq : seq[i] = x})
AddedKeys == [i \in DOMAIN added_corpora |-> added_corpora[i].key]

\* C11: init_system fails before the acoustic model is configured and before
\* any corpus is registered when one of the four arguments is unset, fails
\* before any corpus is registered when a corpus name is in more than one
\* dictionary, and when it returns every key of the three dictionaries was
\* registered once and is once in the role list of its dictionary and in no
\* other role list.
C11_InitSystem ==
    /\ (~init_args.rasr_init_args \/ ~init_args.train_data.given
          \/ ~init_args.dev_data.given \/ ~init_args.test_data.given)
         => /\ init_pc \in {"idle", "AssertionError"}
            /\ ~am_configured
            /\ added_corpora = <<>>
            /\ train_corpora = <<>> /\ dev_corpora = <<>> /\ test_corpora = <<>>
    /\ (\E k \in CorpusNameSet :
           \/ k \in init_args.train_data.keys \cap init_args.dev_data.keys
           \/ k \in init_args.train_data.keys \cap init_args.test_data.keys
           \/ k \in init_args.dev_data.keys \cap init_args.test_data.keys)
         => /\ init_pc \notin {"add_corpora", "done"}
            /\ added_corpora = <<>>
            /\ train_corpora = <<>> /\ dev_corpora = <<>> /\ test_corpora = <<>>
    /\ init_pc = "done"
         => /\ am_configured
            /\ \A k \in CorpusNameSet :
                  /\ Count(AddedKeys, k) =
                        IF k \in init_args.train_data.keys \cup init_args.dev_data.keys
                                 \cup init_args.test_data.keys THEN 1 ELSE 0
                  /\ Count(train_corpora, k) = IF k \in init_args.train_data.keys THEN 1 ELSE 0
                  /\ Count(dev_corpora, k) = IF k \in init_args.dev_data.keys THEN 1 ELSE 0
                  /\ Count(test_corpora, k) = IF k \in init_args.test_data.keys THEN 1 ELSE 0
                  /\ Count(train_corpora, k) + Count(dev_corpora, k)
                        + Count(test_corpora, k) <= 1

\* C11 witness: init_system returned after registering one corpus of each role.
C11_Witness ==
    /\ init_pc = "done"
    /\ train_corpora = <<"train-other-960">>
    /\ dev_corpora = <<"dev-other">>
    /\ test_corpora = <<"test-other">>
    /\ Len(added_corpora) = 3

TrainingOps == {"returnn_training", "returnn_training_from_hdf", "returnn_rasr_training"}

\* C12: a training call that succeeded worked on a declared experiment,
\* created one training job of its kind, added the alias 'train/nn_{name}' and
\* the output 'train/{name}_learning_rate.png', stored the job as train_job,
\* and left name, returnn_config, prolog/epilog, graph and priors of the
\* record as they were.
C12_TrainingSubmission ==
    [][\A k \in Keys :
         (fh_last'.key = k /\ fh_last'.op \in TrainingOps /\ fh_last'.exc = None)
            => LET e == experiments[k]
                   f == experiments'[k]
               IN /\ e.declared
                  /\ fh_last'.aliases = << <<"train/nn_">> \o e.name >>
                  /\ fh_last'.outputs = << <<"train/">> \o e.name \o <<"_learning_rate.png">> >>
                  /\ fh_last'.jobs = <<f.train_job.kind>>
                  /\ f.train_job.kind =
                        IF fh_last'.op = "returnn_rasr_training"
                        THEN "ReturnnRasrTrainingJob" ELSE "ReturnnTrainingJob"
                  /\ (fh_last'.op = "returnn_training_from_hdf")
                        => f.train_job.returnn_config.train = "NextGenHDFDataset"
                  /\ f = [e EXCEPT !.train_job = f.train_job]
      ]_vars

\* C12 witness: a RASR training was submitted for an experiment that already
\* had a graph and priors (and so an earlier train job).
C12_Witness ==
    \E k \in Keys :
        /\ fh_last.key = k /\ fh_last.op = "returnn_rasr_training" /\ fh_last.exc = None
        /\ experiments[k].train_job.kind = "ReturnnRasrTrainingJob"
        /\ HasGraph(experiments[k]) /\ HasPriors(experiments[k])
        /\ fh_last.aliases # <<>>

\* ---------------------------------------------------------------------------
PriorOps == {"set_mono_priors_returnn_rasr", "set_diphone_priors_returnn_rasr",
             "set_triphone_priors_returnn_rasr"}

\* The registered outputs below "priors/", in order.
PriorOutputsOf(outs) == SelectSeq(outs, LAMBDA o : Head(o) = "priors/")

\* f"priors/{name}/e{epoch}/{context}.xml" for an experiment name.
PriorXml(name, ep, context) ==
    <<"priors/">> \o name \o <<"/e", ToString(ep), "/", context, ".xml">>

StoredPriorCount(pr) ==
    Cardinality(pr.center_state_prior) + Cardinality(pr.left_context_prior)
        + Cardinality(pr.right_context_prior)

\* C13: a successful prior estimation stores a priors record matching its
\* context type.  Mono: one prior job, only a center-state prior (the job's
\* own xml file).  Diphone: two prior jobs, center-state prior from the
\* reshaping job, left-context prior, no right-context prior.  Triphone:
\* 2 + N prior jobs, center-state prior from the reshaping job, left-context
\* prior and right-context prior from the joining job.  Every stored prior has
\* scale 0.0 and exactly one "priors/.../{context}.xml" output is registered
\* per stored context.
C13_PriorsRecord ==
    [][\A k \in Keys :
         (fh_last'.key = k /\ fh_last'.op \in PriorOps /\ fh_last'.exc = None)
            => LET e == experiments[k]
                   pr == experiments'[k].priors
                   op == fh_last'.op
                   n == Count(fh_last'.jobs, "ReturnnRasrComputePriorJobV2")
                   outs == PriorOutputsOf(fh_last'.outputs)
               IN /\ op = "set_mono_priors_returnn_rasr" =>
                        /\ n = 1
                        /\ Count(fh_last'.jobs, "ReshapeCenterStatePriorsJob") = 0
                        /\ Count(fh_last'.jobs, "JoinRightContextPriorsJob") = 0
                        /\ pr.center_state_prior
                              = {[file |-> "c.out_prior_xml_file", scale |-> 0]}
                        /\ pr.left_context_prior = {}
                        /\ pr.right_context_prior = {}
                  /\ op = "set_diphone_priors_returnn_rasr" =>
                        /\ n = 2
                        /\ Count(fh_last'.jobs, "ReshapeCenterStatePriorsJob") = 1
                        /\ Count(fh_last'.jobs, "JoinRightContextPriorsJob") = 0
                        /\ pr.center_state_prior
                              = {[file |-> "ReshapeCenterStatePriorsJob.out_prior_xml",
                                  scale |-> 0]}
                        /\ pr.left_context_prior
                              = {[file |-> "l.out_prior_xml_file", scale |-> 0]}
                        /\ pr.right_context_prior = {}
                  /\ op = "set_triphone_priors_returnn_rasr" =>
                        /\ n = 2 + NumRightContextConfigs
                        /\ Count(fh_last'.jobs, "ReshapeCenterStatePriorsJob") = 1
                        /\ Count(fh_last'.jobs, "JoinRightContextPriorsJob") = 1
                        /\ pr.center_state_prior
                              = {[file |-> "ReshapeCenterStatePriorsJob.out_prior_xml",
                                  scale |-> 0]}
                        /\ pr.left_context_prior
                              = {[file |-> "l.out_prior_xml_file", scale |-> 0]}
                        /\ pr.right_context_prior
                              = {[file |-> "JoinRightContextPriorsJob.out_prior_xml",
                                  scale |-> 0]}
                  /\ \A f \in {pr.center_state_prior, pr.left_context_prior,
                                pr.right_context_prior} : \A p \in f : p.scale = 0
                  /\ Len(outs) = StoredPriorCount(pr)
                  /\ \E ep \in FhEpochs :
                        /\ Count(outs, PriorXml(e.name, ep, "center-state"))
                              = Cardinality(pr.center_state_prior)
                        /\ Count(outs, PriorXml(e.name, ep, "left-context"))
                              = Cardinality(pr.left_context_prior)
                        /\ Count(outs, PriorXml(e.name, ep, "right-context"))
                              = Cardinality(pr.right_context_prior)
      ]_vars

\* C13 witness: a triphone prior estimation succeeded and stored all three
\* priors, with one prior job per right-context config.
C13_Witness ==
    \E k \in Keys :
        /\ fh_last.key = k /\ fh_last.exc = None
        /\ fh_last.op = "set_triphone_priors_returnn_rasr"
        /\ Count(fh_last.jobs, "ReturnnRasrComputePriorJobV2") = 2 + NumRightContextConfigs
        /\ experiments[k].priors.kind = "triphone"
        /\ experiments[k].priors.right_context_prior # {}

\* ---------------------------------------------------------------------------
RasrOps == {"returnn_rasr_training"} \cup PriorOps

\* The feature flow a job gets for a data input whose features are looked at.
FlowByFeatures(data) ==
    [of |-> "basic_cache_flow",
     feature_path |-> CASE data.features = "FlagDependentFlowAttribute" -> "features"
                        [] data.features = "MultiPath" -> "task_dependent"
                        [] data.features = "Path" -> "bundle"
                        [] OTHER -> None,
     flags |-> IF data.features = "Path" THEN "bundle" ELSE None]

\* The data input resolution of one step; with own_flow, a data input that
\* has a feature flow hands that flow to the job and its features are not
\* looked at, without own_flow the features always decide.
DataInputResolution(own_flow) ==
    \A k \in Keys :
       (fh_last'.key = k /\ fh_last'.op \in RasrOps)
          => LET data == train_input_data
                 uses_flow == own_flow /\ data.feature_flow # None
                 features_ok == uses_flow \/ data.features \in
                                   {"FlagDependentFlowAttribute", "MultiPath", "Path"}
                 alignments_ok == data.alignments \in {"FlagDependentFlowAttribute", "Path"}
                 rasr_jobs == Count(fh_last'.jobs, "ReturnnRasrTrainingJob")
                                + Count(fh_last'.jobs, "ReturnnRasrComputePriorJobV2")
             IN /\ ~(features_ok /\ alignments_ok)
                     => /\ fh_last'.exc # None
                        /\ rasr_jobs = 0
                        /\ experiments'[k].train_job = experiments[k].train_job
                        /\ experiments'[k].priors = experiments[k].priors
                /\ fh_last'.exc = "NotImplementedError"
                     => /\ ~(features_ok /\ alignments_ok)
                        /\ rasr_jobs = 0
                /\ fh_last'.exc = None
                     => /\ rasr_jobs >= 1
                        /\ Len(fh_last'.inputs) = rasr_jobs
                        /\ \A i \in DOMAIN fh_last'.inputs :
                              /\ fh_last'.inputs[i].feature_flow
                                    = IF uses_flow
                                      THEN [of |-> data.feature_flow, feature_path |-> None,
                                            flags |-> None]
                                      ELSE FlowByFeatures(data)
                              /\ fh_last'.inputs[i].alignment
                                    = IF data.alignments = "Path" THEN "alignments"
                                      ELSE "alignments.get(bundle)"

\* C14 as stated: returnn_rasr_training and prior estimation resolve a data
\* input by the representation of its features and alignments alone; features
\* of any other representation fail, in every failing case no training or
\* prior job is created and train_job and priors are unchanged.
C14_ResolvedByAttributes == [][DataInputResolution(FALSE)]_vars

\* C14 amended: a data input that carries a feature flow hands that flow to the
\* job whatever its features are; only without one are the features resolved
\* by representation (flag-dependent: direct, multi-path: "task_dependent",
\* path: "bundle" with the cache_mode flag, other: NotImplementedError).
\* Alignments: flag-dependent resolved against a bundle network, path direct,
\* multi-path or other NotImplementedError.  A call on an unsupported input
\* creates no training or prior job and leaves train_job and priors alone.
C14_ResolvedByFlowThenAttributes == [][DataInputResolution(TRUE)]_vars

\* C14 witness: a prior estimation failed with NotImplementedError on a data
\* input without feature flow and with features of an unsupported
\* representation, for an experiment that has a train job.
C14_Witness ==
    \E k \in Keys :
        /\ fh_last.key = k /\ fh_last.op \in PriorOps
        /\ fh_last.exc = "NotImplementedError"
        /\ train_input_data.feature_flow = None
        /\ train_input_data.features = "Other"
        /\ HasTrainJob(experiments[k])

\* ---------------------------------------------------------------------------
\* The sub-preset the "heuristic" preset stands for.
HeuristicSubPreset(n) == IF n > 1 THEN "threepartite" ELSE "monostate"

\* The preset given for a role ("train" or "eval") after resolution.
ResolvedPreset(given, n) ==
    IF given = [preset |-> "heuristic", sub |-> None]
    THEN [preset |-> "heuristic", sub |-> HeuristicSubPreset(n)]
    ELSE given

\* C15: once the types are resolved, a "heuristic" train or eval preset is the
\* tuple ("heuristic", "threepartite") when n_states_per_phone > 1 and
\* ("heuristic", "monostate") when it is 1, each depending on its own
\* argument only; when the method returns, every CRP whose role name contains
\* "train" holds the resolved train preset, every other CRP the resolved eval
\* preset, and each CRP was updated exactly once.
C15_HeuristicPresetPerRole ==
    LET n == tdp_args.n_states_per_phone
        train == ResolvedPreset(tdp_args.train_tdp_type, n)
        eval == ResolvedPreset(tdp_args.eval_tdp_type, n)
    IN /\ tdp_pc \in {"loop", "done", "SystemExit"}
            => tdp_types = [train |-> train, eval |-> eval]
       /\ tdp_pc = "done"
            => /\ Len(tdp_calls) = Len(tdp_names)
               /\ \A i \in DOMAIN tdp_names :
                     /\ Count(tdp_calls, tdp_names[i].crp) = 1
                     /\ tdp_crp[tdp_names[i].crp]
                           = IF \E j \in DOMAIN tdp_names[i].role :
                                    tdp_names[i].role[j] = "train"
                             THEN train ELSE eval

\* C15 witness: the method returned for a three-state model with a
\* "heuristic" train preset and a "default" eval preset, with train and eval
\* CRPs and a corpus whose name contains "train".
C15_Witness ==
    /\ tdp_pc = "done"
    /\ tdp_args.n_states_per_phone > 1
    /\ tdp_args.train_tdp_type = [preset |-> "heuristic", sub |-> None]
    /\ tdp_args.eval_tdp_type = [preset |-> "default", sub |-> None]
    /\ Len(tdp_names) = 5
    /\ <<"train", "-other-960", ".", "cv-", "train", "-other">> \in DOMAIN tdp_crp
    /\ <<"dev-other">> \in DOMAIN tdp_crp
    /\ tdp_crp[<<"train", "-other-960", ".", "cv-", "train", "-other">>]
          = [preset |-> "heuristic", sub |-> "threepartite"]
    /\ tdp_crp[<<"dev-other">>] = [preset |-> "default", sub |-> None]

\* ---------------------------------------------------------------------------
MinOf(a, b) == IF a < b THEN a ELSE b

\* C16: in both variants the dev-train list has at most 1000 segments and is
\* the end of the train segment list: its last 1000 lines, or the whole list
\* if that is shorter, whatever the size of the corpus.
C16_DevTrainFromTheEnd ==
    prep_pc = "done"
        => LET train == prep_segments.train
               devtrain == prep_segments.devtrain
           IN /\ NumLines(devtrain) <= 1000
              /\ NumLines(devtrain) = MinOf(1000, NumLines(train))
              /\ devtrain.file = train.file
              /\ NumLines(train) > 0 => devtrain.hi = train.hi /\ devtrain.lo >= train.lo
              /\ prep_inputs.devtrain.segment_path = devtrain

\* C16 witness: the separate-CV variant returned with a train list of more
\* than 1000 segments, of which dev-train holds the last 1000.
C16_Witness ==
    /\ prep_pc = "done"
    /\ NumLines(prep_segments.train) > 1000
    /\ NumLines(prep_segments.devtrain) = 1000
    /\ prep_segments.devtrain.hi = prep_segments.train.hi
    /\ prep_args.is_cv_separate_from_train

\* ---------------------------------------------------------------------------
\* The train segment list dev-train is derived from: the train part of the
\* split in the from-train variant, the train segment file of cv_info in the
\* separate-CV variant.
DevTrainSourceFile ==
    IF prep_args.is_cv_separate_from_train
    THEN "cv_info.train_segments" ELSE "ShuffleAndSplitSegmentsJob"

\* C17 as stated: dev-train is the first 1000 lines of the train segment list
\* (the resulting train list of the from-train split, the externally supplied
\* list in the separate-CV variant).
C17_DevTrainFirstLines ==
    prep_pc = "done"
        => LET train == prep_segments.train
           IN prep_segments.devtrain
                = Lines(DevTrainSourceFile, train.lo,
                        MinOf(train.hi, train.lo + 1000 - 1))

\* C17 amended: dev-train is the last 1000 lines of that train segment list,
\* not the first: a line of the list is in dev-train exactly if fewer than
\* 1000 lines follow it.
C17_DevTrainLastLines ==
    prep_pc = "done"
        => LET train == prep_segments.train
               devtrain == prep_segments.devtrain
           IN /\ train.file = DevTrainSourceFile
              /\ devtrain.file = DevTrainSourceFile
              /\ \A line \in {train.lo - 1, train.lo, train.lo + 1, train.hi - 1000,
                               train.hi - 999, train.hi, train.hi + 1} :
                    (devtrain.lo <= line /\ line <= devtrain.hi)
                       <=> (train.lo <= line /\ line <= train.hi /\ train.hi - line < 1000)
              /\ devtrain.lo <= devtrain.hi + 1

\* C17 witness: the from-train split returned with a train list of more than
\* 1000 segments; dev-train starts after the first line of that list.
C17_Witness ==
    /\ prep_pc = "done"
    /\ ~prep_args.is_cv_separate_from_train
    /\ NumLines(prep_segments.train) > 1000
    /\ prep_segments.devtrain.lo > prep_segments.train.lo
    /\ prep_segments.devtrain.hi = prep_segments.train.hi

\* ---------------------------------------------------------------------------
AbsDiff(a, b) == IF a < b THEN b - a ELSE a - b

\* The fractions and the concurrency of the from-train split: cv fraction
\* 3000/T, train fraction 1 - 3000/T, together 1; concurrency 1 on the train,
\* cv and dev-train inputs.
SplitFractionsAndConcurrency ==
    LET T == prep_args.total_train_num_segments
    IN /\ prep_split.cv = [num |-> 3000, den |-> T]
       /\ prep_split.train = [num |-> T - 3000, den |-> T]
       /\ prep_split.cv.den = prep_split.train.den
       /\ prep_split.cv.num + prep_split.train.num = prep_split.cv.den
       /\ \A role \in {"train", "cv", "devtrain"} : prep_inputs[role].concurrent = 1
       /\ prep_inputs.train.segment_path = prep_segments.train
       /\ prep_inputs.cv.segment_path = prep_segments.cv

\* C18 as stated: in the from-train split the fractions are 3000/T and
\* 1 - 3000/T, the train and cv partitions together have T segments (within
\* rounding) with 3000 in cv, and every input has concurrency 1.
C18_SplitSizesSumToTable ==
    (prep_pc = "done" /\ ~prep_args.is_cv_separate_from_train)
        => LET T == prep_args.total_train_num_segments
               train == NumLines(prep_segments.train)
               cv == NumLines(prep_segments.cv)
           IN /\ SplitFractionsAndConcurrency
              /\ AbsDiff(train + cv, T) <= 1
              /\ AbsDiff(cv, 3000) <= 1

\* C18 amended: the fractions are 3000/T and 1 - 3000/T for the table count T
\* and every input has concurrency 1; the train and cv partitions together
\* have exactly the n segments that are split, which is T less the segments
\* self.filter_segments removed, and cv has the fraction 3000/T of n within
\* one segment: 3000 segments when nothing was filtered.
C18_SplitSizesSumToSplitList ==
    (prep_pc = "done" /\ ~prep_args.is_cv_separate_from_train)
        => LET T == prep_args.total_train_num_segments
               n == T - prep_args.filtered_out
               train == NumLines(prep_segments.train)
               cv == NumLines(prep_segments.cv)
           IN /\ SplitFractionsAndConcurrency
              /\ train + cv = n
              /\ AbsDiff(cv * T, 3000 * n) < T
              /\ n = T => cv = 3000
              /\ prep_segments.cv.file = prep_segments.train.file
              /\ prep_segments.cv.hi + 1 = prep_segments.train.lo

\* C18 witness: the from-train split returned for the 281241 segments of
\* train-other-960, none filtered, with an input of concurrency 300: 3000
\* segments in cv, 278241 in train.
C18_Witness ==
    /\ prep_pc = "done"
    /\ ~prep_args.is_cv_separate_from_train
    /\ prep_args.total_train_num_segments = 281241
    /\ prep_args.filtered_out = 0
    /\ prep_args.concurrent = 300
    /\ NumLines(prep_segments.cv) = 3000
    /\ NumLines(prep_segments.train) = 278241
    /\ prep_inputs.train.concurrent = 1

\* ---------------------------------------------------------------------------
\* The factors the subsample string gives, in order.
SubsampleFactors(subsample) ==
    LET pieces == split_underscore(subsample, <<>>)
    IN [idx \in DOMAIN pieces |-> int_of(pieces[idx], 0)]

PoolSizesOf(i) == {l.pool_size : l \in {x \in conf_network : x.block = i /\ x.pool_size > 0}}

\* C19: with a subsample string that gives factors for only the first m < n
\* of the n blocks, construction succeeds; a block i <= m has a pooling layer
\* exactly when its factor is > 1, with that pool size, and a block i > m has
\* factor 1 and no pooling layer.
C19_ShortSubsampleString ==
    LET n == conf_args.num_blocks
        factors == SubsampleFactors(conf_args.subsample)
        m == Len(factors)
    IN (conf_args.subsample # <<>> /\ m < n)
          => /\ conf_pc # "AssertionError"
             /\ \A i \in 1..n : i > m => conf_subsample_list[i] = 1
             /\ \A i \in 1..conf_i :
                   PoolSizesOf(i) = IF i <= m /\ factors[i] > 1 THEN {factors[i]} ELSE {}

\* C20: with no_mhsa_module set, no block of the network contains a layer of
\* the self-attention module, whatever the other flags are.
C20_NoSelfAttentionLayers ==
    conf_args.no_mhsa_module
        => \A l \in conf_network : \A j \in DOMAIN l.name : l.name[j] # "self_att"

\* The input_layer strings the front end supports.
SupportedInputLayers ==
    {<<"l", "s", "t", "m", "-", "2">>, <<"l", "s", "t", "m", "-", "4">>,
     <<"l", "s", "t", "m", "-", "6">>,
     <<"c", "o", "n", "v", "-", "4">>, <<"c", "o", "n", "v", "-", "6">>}

\* C21: building an encoder with a weight_noise_layers entry outside
\* {"mhsa", "conv", "frontend_conv"} fails with an assertion in the
\* constructor, and building the whole network with an input_layer string
\* other than "lstm-2", "lstm-4", "lstm-6", "conv-4", "conv-6" fails with an
\* assertion: once the front end has been built for such a string the
\* construction has stopped with an AssertionError and with no other error.
C21_UnsupportedValueFailsWithAssertion ==
    /\ ((\E k \in DOMAIN conf_args.weight_noise_layers :
            conf_args.weight_noise_layers[k] \notin {"mhsa", "conv", "frontend_conv"})
          /\ conf_pc \notin {"idle", "new"})
         => conf_pc = "AssertionError"
    /\ (/\ conf_args.input_layer # NoInputLayer
        /\ conf_args.input_layer \notin SupportedInputLayers
        /\ ~conf_args.create_only_blocks
        /\ conf_pc \notin {"idle", "new", "start"})
         => conf_pc = "AssertionError"

\* The blocks that have layers in the network.
BlocksOfNetwork == {l.block : l \in conf_network} \ {0}

\* The layers of block i whose name after the block prefix is name.
LayersNamed(i, name) == {l \in conf_network : l.block = i /\ l.name = name}

\* C22: in every block, whatever the block options, there is exactly one layer
\* "{block prefix}_ln" with block_final_norm, and it reads the residual layer
\* of the second feed-forward module; there is none without block_final_norm.
\* Every finished block has its output layer named by the block prefix, and
\* every block after the first reads the output layer of the block before it.
C22_FinalNormAndBlockChain ==
    /\ \A i \in BlocksOfNetwork :
         /\ IF conf_args.block_final_norm
            THEN /\ Cardinality(LayersNamed(i, <<"ln">>)) = 1
                 /\ \A l \in LayersNamed(i, <<"ln">>) :
                      l.from = {Ref(i, <<"ffmod", "2", "res">>)}
            ELSE LayersNamed(i, <<"ln">>) = {}
         /\ Cardinality(LayersNamed(i, <<"ffmod", "1", "ln">>)) = 1
         /\ i > 1 => \A l \in LayersNamed(i, <<"ffmod", "1", "ln">>) :
                        l.from = {Ref(i - 1, <<>>)}
    /\ \A i \in 1..conf_i : Cardinality(LayersNamed(i, <<>>)) = 1

\* A network of at least two blocks with the final layer norm is finished.
C22_Witness ==
    /\ conf_pc = "done"
    /\ conf_args.num_blocks >= 2
    /\ conf_args.block_final_norm
    /\ conf_args.sandwich_conv
    /\ LayersNamed(2, <<"ln">>) # {}
    /\ LayersNamed(2, <<>>) # {}

\* The name of the conditionally gated layer of a module of block i.
CondTrainLayer(i, module) ==
    "enc_" \o format_03d(i) \o "_" \o module_tag(module) \o "_cond_train"

\* C23: after test_sd, whose mapping is {1: {"ff_mod1": 0.5}, 12: {"ff_mod1":
\* 0.5}}, the network holds "enc_001_ff1_ff1_cond_train" and
\* "enc_012_ff1_ff1_cond_train" and no gated first feed-forward layer of the
\* blocks 2..11; and in every network built by the stochastic-depth
\* construction a module of a block has its gated layer exactly when the
\* mapping names that block and module.
C23_GatedExactlyWhereMapped ==
    /\ bs_entry = "test_sd"
         => /\ bs_exc = None
            /\ "enc_001_ff1_ff1_cond_train" \in bs_network
            /\ "enc_012_ff1_ff1_cond_train" \in bs_network
            /\ \A i \in 2..11 : CondTrainLayer(i, "ff_mod1") \notin bs_network
    /\ bs_entry \in {"test_sd", "make_experiment_06_stoch_depth"}
         => \A i \in 1..NumEncoderBlocks, m \in SdModules :
               CondTrainLayer(i, m) \in bs_network
                 <=> \E e \in bs_sd_args : e.block = i /\ e.module = m

\* test_sd has run and returned.
C23_Witness ==
    /\ bs_entry = "test_sd"
    /\ Len(bs_calls) = 1
    /\ bs_calls[1].test_construction
    /\ bs_sd_args = {SdEntry(1, "ff_mod1", Half), SdEntry(12, "ff_mod1", Half)}
    /\ "enc_012_ff1_ff1_cond_train" \in bs_network

\* C24: after se_test, which requests "ff_mod", "att_mod" and "conv_mod", the
\* network holds for every block i in 1..12 the three layers
\* "enc_{i:03d}_ff1_ff1_SE_act1", "enc_{i:03d}_sa_SE_act1" and
\* "enc_{i:03d}_conv_SE_act1"; and in every call of the squeeze-and-excitation
\* construction an argument set has use_se_block exactly when its module type
\* was requested.
C24_SeLayersAndFlags ==
    /\ bs_entry = "se_test"
         => /\ bs_exc = None
            /\ \A i \in 1..12 :
                 LET enc == "enc_" \o (IF i < 10 THEN "00" ELSE "0") \o ToString(i)
                 IN /\ (enc \o "_ff1_ff1_SE_act1") \in bs_network
                    /\ (enc \o "_sa_SE_act1") \in bs_network
                    /\ (enc \o "_conv_SE_act1") \in bs_network
    /\ bs_entry \in {"se_test", "make_experiment_07_se_block",
                     "se_ffmod", "se_attmod", "se_convmod"}
         => \A k \in DOMAIN bs_calls :
              LET a == bs_calls[k].conformer_func_args
              IN /\ a.ff1_func_args.use_se_block <=> "ff_mod" \in bs_se_block_for_module
                 /\ a.ff2_func_args.use_se_block <=> "ff_mod" \in bs_se_block_for_module
                 /\ a.sa_func_args.use_se_block <=> "att_mod" \in bs_se_block_for_module
                 /\ a.conv_func_args.use_se_block <=> "conv_mod" \in bs_se_block_for_module

\* se_test has run and returned.
C24_Witness ==
    /\ bs_entry = "se_test"
    /\ Len(bs_calls) = 1
    /\ bs_se_block_for_module = {"ff_mod", "att_mod", "conv_mod"}
    /\ "enc_012_conv_SE_act1" \in bs_network

\* C25: after sd_ff_linear_scale the function has made exactly one experiment
\* construction call, and the apply_stochastic_depth mapping of that call
\* gives both feed-forward modules of block i in 1..12 the survival
\* probability 0.1 + (i - 1) * (0.5 / 11).
C25_LinearScaleExperiment ==
    bs_entry = "sd_ff_linear_scale"
      => /\ Len(bs_calls) = 1
         /\ \A k \in DOMAIN bs_calls :
              LET sd == bs_calls[k].conformer_func_args.apply_stochastic_depth
              IN \A i \in 1..12, m \in {"ff_mod1", "ff_mod2"} :
                   \E e \in sd :
                     /\ e.block = i /\ e.module = m
                     /\ e.prob[1] * 110 = (11 + (i - 1) * 5) * e.prob[2]

\* C26: whatever kwargs and network_kwargs the caller gives and whatever
\* output layer the network builder makes, the config viterbi_lstm returns
\* has the output loss "ce", the loss_opts {focal_loss_factor: 2.0} and no
\* max_seq_length; every other entry of the config is the caller's value if
\* the caller gave one, else the value of BASE_VITERBI_LRS if it has one, else
\* the value of BASE_CRNN_CONFIG ("lr" is passed on as learning_rate); every
\* network argument is the value of network_kwargs, else of BASE_LSTM_CONFIG,
\* else of BASE_NETWORK_CONFIG.
C26_FocalLossConfig ==
    lstm_pc = "done"
      => LET c == lstm_config.config
             out == lstm_config.network.output
             value(k) == IF k \in DOMAIN lstm_args.kwargs THEN lstm_args.kwargs[k]
                         ELSE IF k \in {"lr", "learning_rates"} THEN "BASE_VITERBI_LRS"
                         ELSE "BASE_CRNN_CONFIG"
             network_value(k) ==
                 IF k \in DOMAIN lstm_args.network_kwargs THEN lstm_args.network_kwargs[k]
                 ELSE IF k \in {"layers", "dropout"} THEN "BASE_LSTM_CONFIG"
                 ELSE "BASE_NETWORK_CONFIG"
         IN /\ out.loss = "ce"
            /\ DOMAIN out.loss_opts = {"focal_loss_factor"}
            /\ out.loss_opts["focal_loss_factor"] = 20
            /\ "max_seq_length" \notin DOMAIN c
            /\ DOMAIN c = {"learning_rate", "batch_size", "learning_rates", "dropout", "l2"}
            /\ c["learning_rate"] = value("lr")
            /\ \A k \in DOMAIN c \ {"learning_rate"} : c[k] = value(k)
            /\ \A k \in {"layers", "dropout", "l2"} :
                 lstm_config.network.args[k] = network_value(k)

\* viterbi_lstm returned for a caller who set lr and max_seq_length, with a
\* network builder whose output layer has another loss.
C26_Witness ==
    /\ lstm_pc = "done"
    /\ {"lr", "max_seq_length"} \subseteq DOMAIN lstm_args.kwargs
    /\ lstm_args.output.loss = "sprint"
    /\ "dropout" \in DOMAIN lstm_args.network_kwargs
    /\ lstm_config.config["learning_rate"] = "caller"

\* C27: in every reachable state an experiment that has a priors record has
\* its inference graph set, so a get_recognizer_and_args call on an
\* experiment with priors never fails with 'set graph first'.
C27_PriorsOnlyWithGraph ==
    \A k \in Keys :
        /\ experiments[k].priors.kind # None => experiments[k].graph_inference.kind # None
        /\ (fh_last.op = "get_recognizer_and_args" /\ fh_last.key = k
              /\ experiments[k].priors.kind # None)
             => fh_last.exc # "AssertionError: set graph first"

\* get_recognizer_and_args was called on an experiment whose priors were
\* estimated for more than the center state.
C27_Witness ==
    \E k \in Keys :
        /\ experiments[k].priors.kind \in {"diphone", "triphone"}
        /\ experiments[k].graph_inference.kind # None
        /\ fh_last.op = "get_recognizer_and_args" /\ fh_last.key = k
        /\ fh_last.exc = None

\* The registered corpus keys of the last mapping that contain "train" and
\* differ from the train key set before them.
OtherTrainKeys ==
    {ris_last.mapping[i] : i \in DOMAIN ris_last.mapping}
        \cap {k \in RegisteredCorpora :
                /\ \E j \in DOMAIN k : k[j] = "train"
                /\ ris_train_key # NoTrainKey
                /\ k # ris_train_key}

\* C28: run_input_step accepts one train corpus: a call whose mapping holds a
\* registered key that contains "train" and is not the train key fails with
\* an assertion, no such key ever has an entry in self.inputs, and the train
\* key, once set, stays what it is.
C28_OneTrainKey ==
    /\ OtherTrainKeys # {} => ris_last.exc = "AssertionError"
    /\ \A p \in ris_inputs :
         (\E j \in DOMAIN p[1] : p[1][j] = "train") => p[1] = ris_train_key
    /\ ris_last.train_key_before # NoTrainKey => ris_train_key = ris_last.train_key_before

\* C29: for every model built by from_training_job, whatever the keep list
\* (default, explicit, empty, or with epochs above num_epochs), fixed_epochs is
\* not empty and holds only stored epochs (the multiples of save_interval
\* below num_epochs, and num_epochs); last_fixed_epoch_idx returns num_epochs;
\* and get_last_fixed_epoch returns the model definition with the checkpoint
\* "epoch.NNN.index" of num_epochs, the same as get_epoch(num_epochs).
C29_LastFixedEpochIsLastEpoch ==
    LET n == post_config.num_epochs
        digits == IF n < 10 THEN "00" \o ToString(n)
                  ELSE IF n < 100 THEN "0" \o ToString(n) ELSE ToString(n)
    IN /\ mwc.built
         => /\ mwc.fixed_epochs # {}
            /\ \A e \in mwc.fixed_epochs :
                 e = n \/ (e < n /\ e >= 1 /\ e % post_config.save_interval = 0)
       /\ ckpt_ret.op = "last_fixed_epoch_idx" => ckpt_ret.idx = n
       /\ ckpt_ret.op = "get_last_fixed_epoch"
            => /\ ckpt_ret.definition = "definition"
               /\ ckpt_ret.index_path = "epoch." \o digits \o ".index"
       /\ (ckpt_ret.op = "get_epoch" /\ ckpt_ret.arg = n)
            => /\ ckpt_ret.definition = "definition"
               /\ ckpt_ret.index_path = "epoch." \o digits \o ".index"

\* get_last_fixed_epoch returned for a model whose explicit keep list holds
\* only epochs above num_epochs and whose stored epochs are more than one.
C29_Witness ==
    /\ ckpt_ret.op = "get_last_fixed_epoch"
    /\ post_config.cleanup_old_models.has_keep
    /\ post_config.cleanup_old_models.keep = {4}
    /\ post_config.num_epochs = 3
    /\ post_config.save_interval = 1
    /\ mwc.fixed_epochs = {3}
    /\ ckpt_ret.index_path = "epoch.003.index"

\* C30: within one call two search jobs of different grid points (differing
\* in lm scale, prior scale, pronunciation scale or epoch) never have the same
\* alias, and the ".reports" names registered for them differ, also when the
\* scales differ only beyond the second decimal.
C30_DistinctPathsPerGridPoint ==
    LET searches == {i \in DOMAIN ats_jobs : ats_jobs[i].kind = "AdvancedTreeSearchJob"}
        differ(i, j) == \/ ats_jobs[i].lm_scale # ats_jobs[j].lm_scale
                        \/ ats_jobs[i].prior_scale # ats_jobs[j].prior_scale
                        \/ ats_jobs[i].pronunciation_scale # ats_jobs[j].pronunciation_scale
                        \/ ats_jobs[i].epoch # ats_jobs[j].epoch
    IN /\ \A i, j \in searches : differ(i, j) => ats_jobs[i].alias # ats_jobs[j].alias
       /\ \A m, n \in DOMAIN ats_outputs :
            differ(ats_outputs[m].lattice_of, ats_outputs[n].lattice_of)
              => ats_outputs[m].name # ats_outputs[n].name

=============================================================================
